---- MODULE Spec2Model ----
(***************************************************************************)
(* EcoTrade-Server: the QR scan protocol (scanController.js), the device   *)
(* operations that write Device records (deviceController.js), the         *)
(* compaction of the Activity log into day documents                       *)
(* (activityArchiveService.js) and the activity queries                    *)
(* (activityController.js), over a document store with Mongoose            *)
(* semantics: a handler reads a document into a local copy, changes the    *)
(* copy, and save() writes back only the paths it changed ($set of the     *)
(* modified paths).  Every await of a handler is a point where another     *)
(* request may run.  Time is counted in whole hours of UTC.                *)
(***************************************************************************)
EXTENDS Integers, Sequences, FiniteSets, Bags, TLC

\* ------------------------------------------------------------------ bounds
MaxCode == 3          \* uniqueCode values 0..MaxCode
MaxRequests == 2      \* requests started in one behaviour
MaxFailures == 1      \* persistence writes that fail in one behaviour
MaxLifecycle == 4     \* requests started in the life of one device
MaxManualRuns == 1  \* compactions the operator asks for while retention is watched
MaxJobDays == 3       \* days the scheduler is watched

\* ------------------------------------------------------- program constants
RewardPoints == 10
RewardScans == 1
HoursPerDay == 24
\* Activity.createdAt expires after 2592000 seconds (Device.js 113-115), and
\* the export looks back the same 30 days (activityExportController.js 56)
RawLogDays == 30

\* ------------------------------------------------------------- identifiers
Undefined == "<undefined>"
NullV == "<null>"

UserIds == {"u1", "u2"}
WorkspaceIds == {"w1", "w2"}
\* Device records in natural (insertion) order; the names are their _id,
\* strings of the ObjectId shape.  d3, d4 and d5 are the _id of the records
\* that registerDevice creates; an _id is never given out twice.
DeviceOrder == <<"d1", "d2", "d3", "d4", "d5">>
DeviceRecIds == {DeviceOrder[i] : i \in 1..Len(DeviceOrder)}
\* hardware ids printed in QR codes; "BIN-9" is registered nowhere
HardwareIds == {"BIN-1", "BIN-2", "BIN-9"}
ReqIds == {1, 2}

\* finalDeviceId.match(/^[0-9a-fA-F]{24}$/)
IsObjectId(s) == s \in DeviceRecIds

NoDevice == [exists |-> FALSE, id |-> NullV, deviceId |-> NullV, workspaceId |-> NullV,
             name |-> NullV, status |-> NullV, lastUniqueCode |-> 0]
NoMember == [exists |-> FALSE, role |-> NullV, permissions |-> {}, points |-> 0, scanCount |-> 0]
NoUser == [exists |-> FALSE, points |-> 0, scanCount |-> 0]

\* ------------------------------------------------------------------- state
VARIABLES
    devices,      \* Device collection: _id -> document
    members,      \* WorkspaceMember collection: <<workspaceId, userId>> -> document
    users,        \* User collection: userId -> document
    workspaces,   \* Workspace collection: workspaceId -> document
    activities,   \* Activity collection, in insertion order
    notifications, \* Notification collection, in insertion order
    reqs,         \* the requests in flight: slot -> handler frame
    started,      \* number of requests started so far
    failures,     \* number of persistence writes that failed so far
    floor,        \* history: per device record, the largest uniqueCode stored by an accepted scan
    now,          \* the clock, in hours since 00:00 UTC of day 0
    archives,     \* ActivityArchive collection: a bag of day documents
    runs,         \* the compaction runs in flight: slot -> run frame
    lastRun,      \* history: the range of the latest run that completed undisturbed
    reply         \* the answer to the latest query

\* the state the compaction runs and the queries leave alone
serving == <<devices, members, users, workspaces, activities, notifications, reqs, failures, floor,
             now>>

\* the state the scan and device handlers leave alone
reporting == <<now, archives, runs, lastRun, reply>>

vars == <<devices, members, users, workspaces, activities, notifications, reqs, started, failures,
          floor, now, archives, runs, lastRun, reply>>

Max(a, b) == IF a >= b THEN a ELSE b

\* ----------------------------------------------------------- QR payload codec
NullPayload == [null |-> TRUE, deviceId |-> Undefined, type |-> Undefined, action |-> Undefined,
                uniqueCode |-> [t |-> "undefined", v |-> 0, half |-> FALSE]]

\* a JSON number: the whole number v, or v + 1/2
Num(n) == [t |-> "number", v |-> n, half |-> FALSE]
NumAndHalf(n) == [t |-> "number", v |-> n, half |-> TRUE]
\* a JSON value that is not a number
NotNum(k) == [t |-> k, v |-> 0, half |-> FALSE]

\* A base64 blob is absent from the body, decodes to something that is not
\* IV || AES-128-CBC(JSON), or is the ciphertext of a JSON object.
AbsentBlob == [kind |-> "absent", plain |-> NullPayload]
GarbageBlob == [kind |-> "garbage", plain |-> NullPayload]
encryptPayload(p) == [kind |-> "cipher", plain |-> p]

\* returns the decrypted JSON payload, or null when any step throws
decryptQRPayload(blob) ==
    IF blob.kind = "cipher" THEN blob.plain ELSE NullPayload

Valid == [valid |-> TRUE, error |-> "none"]
Invalid(e) == [valid |-> FALSE, error |-> e]

IsMissing(x) == x = Undefined \/ x = NullV

validatePayload(p) ==
    IF p.null THEN Invalid("Empty payload")
    ELSE IF IsMissing(p.deviceId) THEN Invalid("Missing field: deviceId")
    ELSE IF IsMissing(p.type) THEN Invalid("Missing field: type")
    ELSE IF IsMissing(p.action) THEN Invalid("Missing field: action")
    ELSE IF p.uniqueCode.t \in {"undefined", "null"} THEN Invalid("Missing field: uniqueCode")
    ELSE IF p.action \notin {"SCAN", "REGISTER"} THEN Invalid("Invalid action")
    ELSE IF p.uniqueCode.t # "number" THEN Invalid("uniqueCode must be a number")
    ELSE Valid

\* ------------------------------------------------------------ store queries
\* Device.findOne(filter): the first matching document in natural order, or null
FirstMatch(S) ==
    IF S = {} THEN NoDevice
    ELSE LET i == CHOOSE i \in 1..Len(DeviceOrder) :
                    /\ DeviceOrder[i] \in S
                    /\ \A j \in 1..Len(DeviceOrder) : DeviceOrder[j] \in S => i <= j
         IN devices[DeviceOrder[i]]

\* Device.findOne({ deviceId })
FindDeviceByDeviceId(hw) ==
    FirstMatch({d \in DeviceRecIds : devices[d].exists /\ devices[d].deviceId = hw})

\* Device.findOne({ deviceId, workspaceId })
FindDeviceByDeviceIdIn(hw, w) ==
    FirstMatch({d \in DeviceRecIds : /\ devices[d].exists
                                     /\ devices[d].deviceId = hw
                                     /\ devices[d].workspaceId = w})

\* Device.findOne({ _id })
FindDeviceById(id) ==
    FirstMatch({d \in DeviceRecIds : devices[d].exists /\ d = id})

\* Device.findOne({ _id, workspaceId })
FindDeviceByIdIn(id, w) ==
    FirstMatch({d \in DeviceRecIds : devices[d].exists /\ d = id /\ devices[d].workspaceId = w})

\* WorkspaceMember.findOne({ workspaceId, userId })
FindMember(w, u) ==
    IF <<w, u>> \in DOMAIN members /\ members[<<w, u>>].exists
    THEN members[<<w, u>>] ELSE NoMember

\* User.findById(userId)
FindUser(u) == IF u \in DOMAIN users /\ users[u].exists THEN users[u] ELSE NoUser

\* ---------------------------------------------------------- handler frames
NoData == [pointsEarned |-> 0, workspacePoints |-> 0, totalPoints |-> 0, scanCount |-> 0,
           targetWorkspaceId |-> NullV, isMember |-> FALSE]
NoResp == [sent |-> FALSE, status |-> 0, success |-> FALSE, error |-> "none",
           message |-> "none", data |-> NoData]

\* res.status(code).json({ success: false, error, message })
Fail(code, err, msg) ==
    [sent |-> TRUE, status |-> code, success |-> FALSE, error |-> err, message |-> msg,
     data |-> NoData]

NoWrites == [m |-> "none", u |-> "none", a |-> "none"]
NoBody == [encryptedPayload |-> AbsentBlob, deviceId |-> Undefined, action |-> Undefined,
           type |-> Undefined]
NoPre == [devices |-> <<>>, members |-> <<>>, users |-> <<>>, activities |-> <<>>, floor |-> <<>>]

IdleReq == [pc |-> "idle", op |-> "none", userId |-> NullV, urlWorkspaceId |-> NullV,
            urlDeviceId |-> NullV, arg |-> Undefined, sourceOwner |-> NullV,
            body |-> NoBody, payload |-> NullPayload,
            finalDeviceId |-> Undefined, finalAction |-> Undefined, finalType |-> Undefined,
            workspaceId |-> NullV, device |-> NoDevice, membership |-> NoMember,
            user |-> NoUser, deviceElsewhere |-> NoDevice, writes |-> NoWrites,
            resp |-> NoResp, pre |-> NoPre]

Snapshot == [devices |-> devices, members |-> members, users |-> users,
             activities |-> activities, floor |-> floor]

\* the frame of a fresh request
NewReq(op, u, w, body) ==
    [IdleReq EXCEPT !.pc = "start", !.op = op, !.userId = u, !.urlWorkspaceId = w,
                    !.body = body, !.pre = Snapshot]

\* the handler returns with response rsp
Return(f, rsp) == [f EXCEPT !.pc = "done", !.resp = rsp]

ServerError == Fail(500, "Failed to process scan", "error.message")

\* ------------------------------------------------------- replay protection
IsReplayStrict(newUniqueCode, device) == newUniqueCode < device.lastUniqueCode

\* scanController.js 163-183 and 404-421: newUniqueCode <= (device.lastUniqueCode || 0)
IsReplay(newUniqueCode, device) == newUniqueCode <= device.lastUniqueCode

ReplayResp == Fail(400, "QR code sudah dipakai", "QR code ini sudah pernah di-scan")

\* The synchronous code that follows device and membership resolution, up to
\* the next await: the replay check, then either device.save() or, when the
\* request carries no uniqueCode, User.findById.
AfterResolution(f, hasCode) ==
    IF hasCode
    THEN IF IsReplay(f.payload.uniqueCode.v, f.device)
         THEN Return(f, ReplayResp)
         ELSE [f EXCEPT !.pc = "saveDevice",
                        !.device.lastUniqueCode = f.payload.uniqueCode.v]
    ELSE [f EXCEPT !.pc = "findUser"]

\* membership.points += 10; membership.scanCount += 1 (on the local copy)
AwardMembership(m) ==
    [m EXCEPT !.points = @ + RewardPoints, !.scanCount = @ + RewardScans]

AwardUserPointsOnly(u) == [u EXCEPT !.points = @ + RewardPoints]

\* user.points += 10; user.scanCount += 1 (on the local copy)
AwardUser(u) ==
    [u EXCEPT !.points = @ + RewardPoints, !.scanCount = @ + RewardScans]

\* Activity.create({ workspaceId, userId, deviceId: device._id, type: 'SCAN', points: 10 })
ScanActivity(f) ==
    [workspaceId |-> f.workspaceId, userId |-> f.userId, deviceId |-> f.device.id,
     deviceType |-> IF f.finalType = Undefined THEN "SMART_BIN" ELSE f.finalType,
     type |-> "SCAN", points |-> RewardPoints, createdAt |-> now]

\* res.json({ success: true, data: { pointsEarned, workspacePoints, totalPoints, scanCount } })
SuccessResp(f, totalPoints) ==
    [sent |-> TRUE, status |-> 200, success |-> TRUE, error |-> "none", message |-> "none",
     data |-> [NoData EXCEPT !.pointsEarned = RewardPoints,
                             !.workspacePoints = f.membership.points,
                             !.totalPoints = totalPoints,
                             !.scanCount = f.membership.scanCount]]

\* whether a persistence write may fail now
WriteOutcomes == IF failures < MaxFailures THEN {TRUE, FALSE} ELSE {TRUE}

\* a frame whose Promise.all has settled and whose response is out is finished
Settle(f) ==
    IF /\ f.resp.sent
       /\ "pending" \notin {f.writes.m, f.writes.u, f.writes.a}
    THEN [f EXCEPT !.pc = "done"]
    ELSE f

\* ---------------------------------------------------------- scan requests
\* The decoded form both paths of a scan converge on.
Decode(f, payload) ==
    [f EXCEPT !.payload = payload, !.finalDeviceId = payload.deviceId,
              !.finalAction = payload.action, !.finalType = payload.type]

EarnsPointsOrRegisters(action) == action \in {"SCAN", "REGISTER"}

\* finalAction !== 'SCAN' ends the request (lines 91 and 335)
EarnsPoints(action) == action = "SCAN"

GuidanceResp ==
    Fail(400, "Invalid action for earning points",
         "This QR code is for device registration. Please use the Add Device feature.")

\* scanDeviceGlobal, from the entry to the first await (lines 21-102)
GlobalPrefix(f) ==
    LET blob == f.body.encryptedPayload
        payload == decryptQRPayload(blob)
        validation == validatePayload(payload)
        g == Decode(f, payload)
    IN  IF blob.kind = "absent"
        THEN Return(f, Fail(400, "Missing encrypted payload", "QR code ini tidak valid"))
        ELSE IF payload.null
        THEN Return(f, Fail(400, "Decryption failed", "Invalid or corrupted QR code"))
        ELSE IF ~validation.valid
        THEN Return(f, Fail(400, "Invalid payload", validation.error))
        ELSE IF ~EarnsPoints(g.finalAction)
        THEN Return(g, GuidanceResp)
        ELSE [g EXCEPT !.pc = "findDevice"]

\* scanDevice, from the entry to the first await (lines 265-344)
ScopedPrefix(f) ==
    LET blob == f.body.encryptedPayload
        payload == decryptQRPayload(blob)
        validation == validatePayload(payload)
        g == IF blob.kind = "absent"
             THEN [f EXCEPT !.finalDeviceId = f.body.deviceId,
                            !.finalAction = f.body.action,
                            !.finalType = f.body.type]
             ELSE Decode(f, payload)
        h == [g EXCEPT !.workspaceId = f.urlWorkspaceId]
    IN  IF blob.kind # "absent" /\ payload.null
        THEN Return(f, Fail(400, "Decryption failed", "Invalid or corrupted QR code"))
        ELSE IF blob.kind # "absent" /\ ~validation.valid
        THEN Return(f, Fail(400, "Invalid payload", validation.error))
        ELSE IF IsMissing(h.finalAction)
        THEN Return(h, Fail(400, "Missing action field", "QR code must contain an action field"))
        ELSE IF h.finalAction \notin {"SCAN", "REGISTER"}
        THEN Return(h, Fail(400, "Invalid action", "Action must be SCAN or REGISTER"))
        ELSE IF ~EarnsPoints(h.finalAction)
        THEN Return(h, GuidanceResp)
        ELSE [h EXCEPT !.pc = "findMembership"]

\* a request arrives and runs to its first await, while fewer than limit
\* requests have been started
ReceiveWithin(limit, r, op, u, w, body) ==
    /\ reqs[r].pc = "idle"
    /\ started < limit
    /\ started' = started + 1
    /\ reqs' = [reqs EXCEPT ![r] = IF op = "scanDeviceGlobal"
                                   THEN GlobalPrefix(NewReq(op, u, NullV, body))
                                   ELSE ScopedPrefix(NewReq(op, u, w, body))]
    /\ UNCHANGED <<reporting, devices, members, users, workspaces, notifications, activities, failures, floor>>

Receive(r, op, u, w, body) == ReceiveWithin(MaxRequests, r, op, u, w, body)

DeviceNotFoundGlobal ==
    Fail(404, "Device not recognized", "Perangkat ini tidak terdaftar di sistem.")
DeviceNotFoundScoped ==
    Fail(404, "Device not recognized", "Perangkat ini tidak terdaftar di workspace Anda.")
NotAMember(msg) == Fail(403, "Not a member of this workspace", msg)

\* ---- scanDeviceGlobal
\* the continuation once a device is in hand (lines 126-133)
GlobalHaveDevice(f, device) ==
    [f EXCEPT !.device = device, !.workspaceId = device.workspaceId, !.pc = "findMembership"]

\* await Device.findOne({ deviceId }) (lines 102-124)
GlobalFindDevice(r) ==
    LET f == reqs[r]
        device == FindDeviceByDeviceId(f.finalDeviceId)
    IN  /\ f.op = "scanDeviceGlobal" /\ f.pc = "findDevice"
        /\ reqs' = [reqs EXCEPT ![r] =
                      IF device.exists THEN GlobalHaveDevice(f, device)
                      ELSE IF IsObjectId(f.finalDeviceId) THEN [f EXCEPT !.pc = "findDeviceById"]
                      ELSE Return(f, DeviceNotFoundGlobal)]
        /\ UNCHANGED <<reporting, devices, members, users, workspaces, notifications, activities, started, failures, floor>>

\* await Device.findOne({ _id }) (lines 109-124)
GlobalFindDeviceById(r) ==
    LET f == reqs[r]
        device == FindDeviceById(f.finalDeviceId)
    IN  /\ f.op = "scanDeviceGlobal" /\ f.pc = "findDeviceById"
        /\ reqs' = [reqs EXCEPT ![r] =
                      IF device.exists THEN GlobalHaveDevice(f, device)
                      ELSE Return(f, DeviceNotFoundGlobal)]
        /\ UNCHANGED <<reporting, devices, members, users, workspaces, notifications, activities, started, failures, floor>>

\* await WorkspaceMember.findOne, then the replay check (lines 133-181)
GlobalFindMembership(r) ==
    LET f == reqs[r]
        membership == FindMember(f.workspaceId, f.userId)
        g == [f EXCEPT !.membership = membership]
    IN  /\ f.op = "scanDeviceGlobal" /\ f.pc = "findMembership"
        /\ reqs' = [reqs EXCEPT ![r] =
                      IF ~membership.exists THEN [g EXCEPT !.pc = "findWorkspace"]
                      ELSE AfterResolution(g, g.payload.uniqueCode.t # "undefined")]
        /\ UNCHANGED <<reporting, devices, members, users, workspaces, notifications, activities, started, failures, floor>>

\* await Workspace.findById, then the denial naming the workspace (lines 146-155)
GlobalFindWorkspace(r) ==
    LET f == reqs[r]
    IN  /\ f.op = "scanDeviceGlobal" /\ f.pc = "findWorkspace"
        /\ reqs' = [reqs EXCEPT ![r] =
                      Return(f, NotAMember(IF f.workspaceId \in DOMAIN workspaces
                                           THEN workspaces[f.workspaceId].name
                                           ELSE "Unknown"))]
        /\ UNCHANGED <<reporting, devices, members, users, workspaces, notifications, activities, started, failures, floor>>

\* document.save() of a Device whose only modified path is lastUniqueCode:
\* updateOne({ _id }, { $set: { lastUniqueCode } })
SaveLastUniqueCode(device) ==
    [devices EXCEPT ![device.id].lastUniqueCode = device.lastUniqueCode]

\* await device.save() (line 181), then the local award (lines 188-196)
GlobalSaveDevice(r) ==
    LET f == reqs[r]
    IN  /\ f.op = "scanDeviceGlobal" /\ f.pc = "saveDevice"
        /\ \E ok \in WriteOutcomes :
             IF ok /\ devices[f.device.id].exists
             THEN /\ devices' = SaveLastUniqueCode(f.device)
                  /\ floor' = [floor EXCEPT ![f.device.id] = Max(@, f.device.lastUniqueCode)]
                  /\ reqs' = [reqs EXCEPT ![r] =
                                [f EXCEPT !.membership = AwardMembership(f.membership),
                                          !.pc = "findUser"]]
                  /\ UNCHANGED failures
             ELSE /\ reqs' = [reqs EXCEPT ![r] = Return(f, ServerError)]
                  /\ failures' = IF ok THEN failures ELSE failures + 1
                  /\ UNCHANGED <<reporting, devices, floor>>
        /\ UNCHANGED <<reporting, members, users, workspaces, notifications, activities, started>>

\* await User.findById, then the three writes are issued together (lines 196-218)
GlobalFindUser(r) ==
    LET f == reqs[r]
        user == FindUser(f.userId)
    IN  /\ f.op = "scanDeviceGlobal" /\ f.pc = "findUser"
        /\ reqs' = [reqs EXCEPT ![r] =
                      [f EXCEPT !.user = IF user.exists THEN AwardUser(user) ELSE user,
                                !.writes = [m |-> "pending",
                                            u |-> IF user.exists THEN "pending" ELSE "skipped",
                                            a |-> "pending"],
                                !.pc = "award"]]
        /\ UNCHANGED <<reporting, devices, members, users, workspaces, notifications, activities, started, failures, floor>>

\* ---- the award step, the same in both handlers (lines 204-218 and 441-455)
InAward(r, op) == reqs[r].op = op /\ reqs[r].pc = "award"

\* membership.save(): updateOne({ _id }, { $set: { points, scanCount } })
MembershipSave(r) ==
    LET f == reqs[r]
        key == <<f.workspaceId, f.userId>>
    IN  /\ f.writes.m = "pending"
        /\ \E ok \in WriteOutcomes :
             IF ok /\ key \in DOMAIN members /\ members[key].exists
             THEN /\ members' = [members EXCEPT ![key].points = f.membership.points,
                                                ![key].scanCount = f.membership.scanCount]
                  /\ reqs' = [reqs EXCEPT ![r] = Settle([f EXCEPT !.writes.m = "ok"])]
                  /\ UNCHANGED failures
             ELSE /\ reqs' = [reqs EXCEPT ![r] = Settle([f EXCEPT !.writes.m = "failed"])]
                  /\ failures' = IF ok THEN failures ELSE failures + 1
                  /\ UNCHANGED members
        /\ UNCHANGED <<reporting, devices, users, workspaces, notifications, activities, started, floor>>

\* user.save(): updateOne({ _id }, { $set: { points, scanCount } })
UserSave(r) ==
    LET f == reqs[r]
    IN  /\ f.writes.u = "pending"
        /\ \E ok \in WriteOutcomes :
             IF ok /\ f.userId \in DOMAIN users /\ users[f.userId].exists
             THEN /\ users' = [users EXCEPT ![f.userId].points = f.user.points,
                                            ![f.userId].scanCount = f.user.scanCount]
                  /\ reqs' = [reqs EXCEPT ![r] = Settle([f EXCEPT !.writes.u = "ok"])]
                  /\ UNCHANGED failures
             ELSE /\ reqs' = [reqs EXCEPT ![r] = Settle([f EXCEPT !.writes.u = "failed"])]
                  /\ failures' = IF ok THEN failures ELSE failures + 1
                  /\ UNCHANGED users
        /\ UNCHANGED <<reporting, devices, members, workspaces, notifications, activities, started, floor>>

\* Activity.create({...})
ActivityCreate(r) ==
    LET f == reqs[r]
    IN  /\ f.writes.a = "pending"
        /\ \E ok \in WriteOutcomes :
             IF ok
             THEN /\ activities' = Append(activities, ScanActivity(f))
                  /\ reqs' = [reqs EXCEPT ![r] = Settle([f EXCEPT !.writes.a = "ok"])]
                  /\ UNCHANGED failures
             ELSE /\ reqs' = [reqs EXCEPT ![r] = Settle([f EXCEPT !.writes.a = "failed"])]
                  /\ failures' = failures + 1
                  /\ UNCHANGED activities
        /\ UNCHANGED <<reporting, devices, members, users, workspaces, notifications, started, floor>>

\* Promise.all settles: it rejects on the first write that fails (the catch
\* block answers 500) and resolves once no write is outstanding.
AwardOutcome(r, totalPoints) ==
    LET f == reqs[r]
        ws == {f.writes.m, f.writes.u, f.writes.a}
    IN  /\ ~f.resp.sent
        /\ "failed" \in ws \/ "pending" \notin ws
        /\ reqs' = [reqs EXCEPT ![r] =
                      Settle([f EXCEPT !.resp = IF "failed" \in ws THEN ServerError
                                                ELSE SuccessResp(f, totalPoints)])]
        /\ UNCHANGED <<reporting, devices, members, users, workspaces, notifications, activities, started, failures, floor>>

GlobalMembershipSave(r) == InAward(r, "scanDeviceGlobal") /\ MembershipSave(r)
GlobalUserSave(r) == InAward(r, "scanDeviceGlobal") /\ UserSave(r)
GlobalActivityCreate(r) == InAward(r, "scanDeviceGlobal") /\ ActivityCreate(r)

\* res.json of scanDeviceGlobal: totalPoints is user?.points || membership.points
GlobalRespond(r) ==
    /\ InAward(r, "scanDeviceGlobal")
    /\ AwardOutcome(r, IF reqs[r].user.exists /\ reqs[r].user.points # 0
                       THEN reqs[r].user.points ELSE reqs[r].membership.points)

\* ---- scanDevice
\* await WorkspaceMember.findOne (lines 344-355)
ScopedFindMembership(r) ==
    LET f == reqs[r]
        membership == FindMember(f.workspaceId, f.userId)
    IN  /\ f.op = "scanDevice" /\ f.pc = "findMembership"
        /\ reqs' = [reqs EXCEPT ![r] =
                      IF ~membership.exists
                      THEN Return(f, NotAMember("You must be a member of this workspace to scan devices"))
                      ELSE [f EXCEPT !.membership = membership, !.pc = "findDevice"]]
        /\ UNCHANGED <<reporting, devices, members, users, workspaces, notifications, activities, started, failures, floor>>

\* the replay check of scanDevice applies to encrypted payloads only (line 404)
ScopedHaveDevice(f, device) ==
    AfterResolution([f EXCEPT !.device = device],
                    ~f.payload.null /\ f.payload.uniqueCode.t # "undefined")

\* await Device.findOne({ deviceId, workspaceId }) (lines 358-372)
ScopedFindDevice(r) ==
    LET f == reqs[r]
        device == FindDeviceByDeviceIdIn(f.finalDeviceId, f.workspaceId)
    IN  /\ f.op = "scanDevice" /\ f.pc = "findDevice"
        /\ reqs' = [reqs EXCEPT ![r] =
                      IF device.exists THEN ScopedHaveDevice(f, device)
                      ELSE IF IsObjectId(f.finalDeviceId) THEN [f EXCEPT !.pc = "findDeviceById"]
                      ELSE [f EXCEPT !.pc = "findElsewhere"]]
        /\ UNCHANGED <<reporting, devices, members, users, workspaces, notifications, activities, started, failures, floor>>

\* await Device.findOne({ _id, workspaceId }) (lines 364-372)
ScopedFindDeviceById(r) ==
    LET f == reqs[r]
        device == FindDeviceByIdIn(f.finalDeviceId, f.workspaceId)
    IN  /\ f.op = "scanDevice" /\ f.pc = "findDeviceById"
        /\ reqs' = [reqs EXCEPT ![r] =
                      IF device.exists THEN ScopedHaveDevice(f, device)
                      ELSE [f EXCEPT !.pc = "findElsewhere"]]
        /\ UNCHANGED <<reporting, devices, members, users, workspaces, notifications, activities, started, failures, floor>>

\* await Device.findOne({ deviceId }) in any workspace (lines 373-399)
ScopedFindElsewhere(r) ==
    LET f == reqs[r]
        deviceElsewhere == FindDeviceByDeviceId(f.finalDeviceId)
    IN  /\ f.op = "scanDevice" /\ f.pc = "findElsewhere"
        /\ reqs' = [reqs EXCEPT ![r] =
                      IF deviceElsewhere.exists
                      THEN [f EXCEPT !.deviceElsewhere = deviceElsewhere, !.pc = "lookupTarget"]
                      ELSE Return(f, DeviceNotFoundScoped)]
        /\ UNCHANGED <<reporting, devices, members, users, workspaces, notifications, activities, started, failures, floor>>

\* await Promise.all([Workspace.findById, WorkspaceMember.findOne]) and the
\* Workspace mismatch answer (lines 376-393)
ScopedLookupTarget(r) ==
    LET f == reqs[r]
        target == f.deviceElsewhere.workspaceId
        isMember == FindMember(target, f.userId)
    IN  /\ f.op = "scanDevice" /\ f.pc = "lookupTarget"
        /\ reqs' = [reqs EXCEPT ![r] =
                      Return(f, [Fail(403, "Workspace mismatch",
                                      "This device belongs to a different workspace")
                                 EXCEPT !.data.targetWorkspaceId = target,
                                        !.data.isMember = isMember.exists])]
        /\ UNCHANGED <<reporting, devices, members, users, workspaces, notifications, activities, started, failures, floor>>

\* await device.save() (line 419)
ScopedSaveDevice(r) ==
    LET f == reqs[r]
    IN  /\ f.op = "scanDevice" /\ f.pc = "saveDevice"
        /\ \E ok \in WriteOutcomes :
             IF ok /\ devices[f.device.id].exists
             THEN /\ devices' = SaveLastUniqueCode(f.device)
                  /\ floor' = [floor EXCEPT ![f.device.id] = Max(@, f.device.lastUniqueCode)]
                  /\ reqs' = [reqs EXCEPT ![r] = [f EXCEPT !.pc = "findUser"]]
                  /\ UNCHANGED failures
             ELSE /\ reqs' = [reqs EXCEPT ![r] = Return(f, ServerError)]
                  /\ failures' = IF ok THEN failures ELSE failures + 1
                  /\ UNCHANGED <<reporting, devices, floor>>
        /\ UNCHANGED <<reporting, members, users, workspaces, notifications, activities, started>>

\* await User.findById, the local award, and the three writes issued (lines 424-455)
ScopedFindUser(r) ==
    LET f == reqs[r]
        user == FindUser(f.userId)
    IN  /\ f.op = "scanDevice" /\ f.pc = "findUser"
        /\ reqs' = [reqs EXCEPT ![r] =
                      IF ~user.exists
                      THEN Return(f, Fail(404, "User not found", "none"))
                      ELSE [f EXCEPT !.membership = AwardMembership(f.membership),
                                     !.user = AwardUser(user),
                                     !.writes = [m |-> "pending", u |-> "pending", a |-> "pending"],
                                     !.pc = "award"]]
        /\ UNCHANGED <<reporting, devices, members, users, workspaces, notifications, activities, started, failures, floor>>

ScopedMembershipSave(r) == InAward(r, "scanDevice") /\ MembershipSave(r)
ScopedUserSave(r) == InAward(r, "scanDevice") /\ UserSave(r)
ScopedActivityCreate(r) == InAward(r, "scanDevice") /\ ActivityCreate(r)

\* res.json of scanDevice: totalPoints is user.points
ScopedRespond(r) ==
    /\ InAward(r, "scanDevice")
    /\ AwardOutcome(r, reqs[r].user.points)

\* the response has been delivered and the handler's frame is gone
Finish(r) ==
    /\ reqs[r].pc = "done"
    /\ reqs' = [reqs EXCEPT ![r] = IdleReq]
    /\ UNCHANGED <<reporting, devices, members, users, workspaces, notifications, activities, started, failures, floor>>

\* ------------------------------------------------------------ initial state
Device(id, hw, w, code) ==
    [exists |-> TRUE, id |-> id, deviceId |-> hw, workspaceId |-> w, name |-> hw,
     status |-> "ACTIVE", lastUniqueCode |-> code]
Member(role, perms, points, scans) ==
    [exists |-> TRUE, role |-> role, permissions |-> perms, points |-> points,
     scanCount |-> scans]

\* Two workspaces of the same owner u1; BIN-1 is bound to w1 and BIN-2 to w2;
\* u2 is an admin of w1 only.  BIN-1 has been scanned before (its
\* stored replay counter is 1), BIN-2 never.  The store has no referential
\* integrity: the identity u2 holds a membership but no User document, the
\* case both handlers test for after User.findById.
InitDevices ==
    [d \in DeviceRecIds |->
        IF d = "d1" THEN Device("d1", "BIN-1", "w1", 1)
        ELSE IF d = "d2" THEN Device("d2", "BIN-2", "w2", 0)
        ELSE NoDevice]
InitMembers ==
    [k \in WorkspaceIds \X UserIds |->
        IF k = <<"w1", "u1">> THEN Member("OWNER", {}, 50, 5)
        ELSE IF k = <<"w2", "u1">> THEN Member("OWNER", {}, 20, 2)
        ELSE IF k = <<"w1", "u2">> THEN Member("ADMIN", {"TRANSFER_DEVICE"}, 0, 0)
        ELSE NoMember]
InitUsers ==
    [u \in UserIds |->
        IF u = "u1" THEN [exists |-> TRUE, points |-> 70, scanCount |-> 7] ELSE NoUser]

\* the clock starts in the first hour of day 2: days 0 and 1 are in the past
InitialNow == 2 * HoursPerDay
\* history: no run has completed undisturbed, or the range of the one that has
NoRun == [completed |-> FALSE, startDate |-> 0, endDate |-> 0]
RangeOf(f) == [completed |-> TRUE, startDate |-> f.startDate, endDate |-> f.endDate]
\* no compaction run in the slot
IdleRun == [pc |-> "idle", by |-> "none", startDate |-> 0, endDate |-> 0, output |-> {},
            doc |-> NullV, written |-> {}, rejected |-> FALSE,
            overlapped |-> FALSE, pre |-> [archives |-> EmptyBag, lastRun |-> NoRun]]
\* no query answered yet
NoReply == [op |-> "none", ask |-> NullV, status |-> 0, success |-> FALSE, error |-> "none",
            data |-> NullV]

InitStore ==
    /\ devices = InitDevices
    /\ members = InitMembers
    /\ users = InitUsers
    /\ workspaces = [w \in WorkspaceIds |-> [exists |-> TRUE, name |-> w, ownerId |-> "u1"]]
    /\ activities = <<>>
    /\ notifications = <<>>
    /\ reqs = [r \in ReqIds |-> IdleReq]
    /\ started = 0
    /\ floor = [d \in DeviceRecIds |-> InitDevices[d].lastUniqueCode]
    /\ now = InitialNow
    /\ archives = EmptyBag
    /\ runs = [r \in ReqIds |-> IdleRun]
    /\ lastRun = NoRun
    /\ reply = NoReply

Init ==
    /\ InitStore
    /\ failures = 0

\* ------------------------------------------------------------------ inputs
Codes == 0..MaxCode
ScanPayload(hw, code) ==
    [null |-> FALSE, deviceId |-> hw, type |-> "SMART_BIN", action |-> "SCAN",
     uniqueCode |-> Num(code)]
BasePayload == ScanPayload("BIN-1", MaxCode)

\* what a QR code may decrypt to
\* every code for BIN-1, and the newest code for each other way to name a device
WellFormedPayloads ==
    {ScanPayload("BIN-1", c) : c \in Codes}
    \cup {ScanPayload(hw, MaxCode) : hw \in HardwareIds \cup DeviceRecIds}
MalformedPayloads ==
    {[BasePayload EXCEPT !.deviceId = Undefined], [BasePayload EXCEPT !.type = NullV]}
    \cup {[BasePayload EXCEPT !.action = a] : a \in {"REGISTER", "OPEN", Undefined}}
    \cup {[BasePayload EXCEPT !.uniqueCode = NotNum(k)] :
              k \in {"undefined", "null", "string"}}

EncryptedBodies ==
    {[NoBody EXCEPT !.encryptedPayload = encryptPayload(p)] :
         p \in WellFormedPayloads \cup MalformedPayloads}
    \cup {[NoBody EXCEPT !.encryptedPayload = GarbageBlob]}
\* the legacy plain form { deviceId, action, type }
LegacyBodies ==
    {[NoBody EXCEPT !.deviceId = "BIN-1", !.action = a, !.type = "SMART_BIN"] :
         a \in {"SCAN", "REGISTER", "OPEN", Undefined}}
    \cup {[NoBody EXCEPT !.deviceId = hw, !.action = "SCAN"] : hw \in {"BIN-2", "BIN-9", "d1"}}
ScanBodies == EncryptedBodies \cup LegacyBodies
ScanOps == {"scanDevice", "scanDeviceGlobal"}

\* --------------------------------------------------- requests one at a time
Quiet == \A q \in ReqIds : reqs[q].pc = "idle"

ReceiveScan ==
    \E op \in ScanOps, u \in UserIds, w \in WorkspaceIds, body \in ScanBodies :
        /\ Quiet
        /\ op = "scanDeviceGlobal" => w = "w1"
        /\ Receive(1, op, u, w, body)

ScanStep(r) ==
    \/ GlobalFindDevice(r)
    \/ GlobalFindDeviceById(r)
    \/ GlobalFindMembership(r)
    \/ GlobalFindWorkspace(r)
    \/ GlobalSaveDevice(r)
    \/ GlobalFindUser(r)
    \/ GlobalMembershipSave(r)
    \/ GlobalUserSave(r)
    \/ GlobalActivityCreate(r)
    \/ GlobalRespond(r)
    \/ ScopedFindMembership(r)
    \/ ScopedFindDevice(r)
    \/ ScopedFindDeviceById(r)
    \/ ScopedFindElsewhere(r)
    \/ ScopedLookupTarget(r)
    \/ ScopedSaveDevice(r)
    \/ ScopedFindUser(r)
    \/ ScopedMembershipSave(r)
    \/ ScopedUserSave(r)
    \/ ScopedActivityCreate(r)
    \/ ScopedRespond(r)

Next ==
    \/ ReceiveScan
    \/ \E r \in ReqIds : ScanStep(r)
    \/ \E r \in ReqIds : Finish(r)

Spec == Init /\ [][Next]_vars

\* ------------------------------------- requests one at a time, frames kept
\* no handler is running
Settled == \A q \in ReqIds : reqs[q].pc \in {"idle", "done"}

\* the next request arrives once the one before it has been answered, and the
\* frames of the answered requests are kept for inspection
ReceiveInTurn ==
    \E op \in ScanOps, u \in UserIds, w \in WorkspaceIds, body \in ScanBodies :
        /\ Settled
        /\ started + 1 \in ReqIds
        /\ op = "scanDeviceGlobal" => w = "w1"
        /\ Receive(started + 1, op, u, w, body)

NextInTurn ==
    \/ ReceiveInTurn
    \/ \E r \in ReqIds : ScanStep(r)

SpecInTurn == Init /\ [][NextInTurn]_vars

TypeOK ==
    /\ \A d \in DeviceRecIds : devices[d].lastUniqueCode \in Codes
    /\ started \in 0..MaxRequests
    /\ failures \in 0..MaxFailures

\* ------------------------------------------------------- device operations
\* (deviceController.js)  document.save() writes the modified paths only.
OkResp == [NoResp EXCEPT !.sent = TRUE, !.status = 200, !.success = TRUE]

DeviceActivity(w, u, device, type) ==
    [workspaceId |-> w, userId |-> u, deviceId |-> device.id, deviceType |-> "SMART_BIN",
     type |-> type, points |-> 0, createdAt |-> now]

DeviceOps == {"updateDevice", "controlDevice", "transferDevice"}

\* a device request arrives and runs to its first await
DeviceOpWithin(limit, r, op, u, w, id, arg) ==
    LET f == [NewReq(op, u, w, NoBody) EXCEPT !.urlDeviceId = id, !.arg = arg]
    IN  /\ reqs[r].pc = "idle"
        /\ started < limit
        /\ started' = started + 1
        /\ reqs' = [reqs EXCEPT ![r] =
                      IF op = "transferDevice" /\ IsMissing(arg)
                      THEN Return(f, Fail(400, "Missing targetWorkspaceId",
                                          "Target workspace ID is required"))
                      ELSE [f EXCEPT !.pc = "findDevice"]]
        /\ UNCHANGED <<reporting, devices, members, users, workspaces, notifications, activities, failures, floor>>

ReceiveDeviceOp(r, op, u, w, id, arg) == DeviceOpWithin(MaxRequests, r, op, u, w, id, arg)

\* ---- updateDevice
\* await Device.findById (lines 381-391)
UpdateFindDevice(r) ==
    LET f == reqs[r]
        device == FindDeviceById(f.urlDeviceId)
    IN  /\ f.op = "updateDevice" /\ f.pc = "findDevice"
        /\ reqs' = [reqs EXCEPT ![r] =
                      IF ~device.exists THEN Return(f, Fail(404, "NOT_FOUND", "Device not found"))
                      ELSE [f EXCEPT !.device = device, !.pc = "findMembership"]]
        /\ UNCHANGED <<reporting, devices, members, users, workspaces, notifications, activities, started, failures, floor>>

\* await WorkspaceMember.findOne, the permission check and the local edit (lines 394-428)
UpdateFindMembership(r) ==
    LET f == reqs[r]
        membership == FindMember(f.device.workspaceId, f.userId)
        isOwner == membership.role = "OWNER"
        isAdmin == membership.role = "ADMIN"
        hasPermission == "UPDATE_DEVICE" \in membership.permissions
    IN  /\ f.op = "updateDevice" /\ f.pc = "findMembership"
        /\ reqs' = [reqs EXCEPT ![r] =
                      IF ~membership.exists THEN Return(f, Fail(403, "FORBIDDEN", "Access denied"))
                      ELSE IF ~isOwner /\ (~isAdmin \/ ~hasPermission)
                      THEN Return(f, Fail(403, "FORBIDDEN", "Insufficient permissions"))
                      ELSE [f EXCEPT !.device.name = IF IsMissing(f.arg) THEN @ ELSE f.arg,
                                     !.pc = "saveDevice"]]
        /\ UNCHANGED <<reporting, devices, members, users, workspaces, notifications, activities, started, failures, floor>>

\* await device.save(): $set of name (line 430)
UpdateSaveDevice(r) ==
    LET f == reqs[r]
    IN  /\ f.op = "updateDevice" /\ f.pc = "saveDevice"
        /\ IF devices[f.device.id].exists
           THEN /\ devices' = [devices EXCEPT ![f.device.id].name = f.device.name]
                /\ reqs' = [reqs EXCEPT ![r] = [f EXCEPT !.pc = "createActivity"]]
           ELSE /\ reqs' = [reqs EXCEPT ![r] =
                              Return(f, Fail(500, "INTERNAL_SERVER_ERROR", "Failed to update device"))]
                /\ UNCHANGED devices
        /\ UNCHANGED <<reporting, members, users, workspaces, notifications, activities, started, failures, floor>>

\* await Activity.create (lines 433-442)
UpdateCreateActivity(r) ==
    LET f == reqs[r]
    IN  /\ f.op = "updateDevice" /\ f.pc = "createActivity"
        /\ activities' = Append(activities,
                                DeviceActivity(f.device.workspaceId, f.userId, f.device, "DEVICE_ADDED"))
        /\ reqs' = [reqs EXCEPT ![r] = [f EXCEPT !.pc = "saveNotification"]]
        /\ UNCHANGED <<reporting, devices, members, users, workspaces, notifications, started, failures, floor>>

\* await notification.save() and the answer (lines 445-474)
UpdateSaveNotification(r) ==
    LET f == reqs[r]
    IN  /\ f.op = "updateDevice" /\ f.pc = "saveNotification"
        /\ notifications' = Append(notifications,
                                   [workspaceId |-> f.device.workspaceId, type |-> "INFO"])
        /\ reqs' = [reqs EXCEPT ![r] = Return(f, OkResp)]
        /\ UNCHANGED <<reporting, devices, members, users, workspaces, activities, started, failures, floor>>

\* ---- controlDevice
\* await Device.findById and the action switch (lines 593-638)
ControlFindDevice(r) ==
    LET f == reqs[r]
        device == FindDeviceById(f.urlDeviceId)
    IN  /\ f.op = "controlDevice" /\ f.pc = "findDevice"
        /\ reqs' = [reqs EXCEPT ![r] =
                      IF ~device.exists THEN Return(f, Fail(404, "NOT_FOUND", "Device not found"))
                      ELSE IF f.arg \notin {"toggle", "setBrightness", "setLock"}
                      THEN Return(f, Fail(400, "INVALID_ACTION", "Unknown device action"))
                      ELSE [f EXCEPT !.device = [device EXCEPT !.status = "ONLINE"],
                                     !.pc = "saveDevice"]]
        /\ UNCHANGED <<reporting, devices, members, users, workspaces, notifications, activities, started, failures, floor>>

\* await device.save(): $set of status and lastSeen (line 639)
ControlSaveDevice(r) ==
    LET f == reqs[r]
    IN  /\ f.op = "controlDevice" /\ f.pc = "saveDevice"
        /\ IF devices[f.device.id].exists
           THEN /\ devices' = [devices EXCEPT ![f.device.id].status = f.device.status]
                /\ reqs' = [reqs EXCEPT ![r] = Return(f, OkResp)]
           ELSE /\ reqs' = [reqs EXCEPT ![r] =
                              Return(f, Fail(500, "INTERNAL_SERVER_ERROR", "Failed to control device"))]
                /\ UNCHANGED devices
        /\ UNCHANGED <<reporting, members, users, workspaces, notifications, activities, started, failures, floor>>

\* ---- transferDevice (source workspace urlWorkspaceId, target workspace arg)
\* await Device.findById (lines 680-694)
TransferFindDevice(r) ==
    LET f == reqs[r]
        device == FindDeviceById(f.urlDeviceId)
    IN  /\ f.op = "transferDevice" /\ f.pc = "findDevice"
        /\ reqs' = [reqs EXCEPT ![r] =
                      IF ~device.exists THEN Return(f, Fail(404, "Device not found", "none"))
                      ELSE IF device.workspaceId # f.urlWorkspaceId
                      THEN Return(f, Fail(400, "Device does not belong to this workspace", "none"))
                      ELSE [f EXCEPT !.device = device, !.pc = "findMembership"]]
        /\ UNCHANGED <<reporting, devices, members, users, workspaces, notifications, activities, started, failures, floor>>

\* await WorkspaceMember.findOne for the source workspace (lines 697-707)
TransferFindMembership(r) ==
    LET f == reqs[r]
        sourceMembership == FindMember(f.urlWorkspaceId, f.userId)
    IN  /\ f.op = "transferDevice" /\ f.pc = "findMembership"
        /\ reqs' = [reqs EXCEPT ![r] =
                      IF ~sourceMembership.exists
                      THEN Return(f, Fail(403, "Not a member of source workspace", "none"))
                      ELSE [f EXCEPT !.membership = sourceMembership,
                                     !.pc = "findSourceWorkspace"]]
        /\ UNCHANGED <<reporting, devices, members, users, workspaces, notifications, activities, started, failures, floor>>

\* await Workspace.findById(sourceWorkspaceId) (line 710)
TransferFindSourceWorkspace(r) ==
    LET f == reqs[r]
    IN  /\ f.op = "transferDevice" /\ f.pc = "findSourceWorkspace"
        /\ reqs' = [reqs EXCEPT ![r] =
                      [f EXCEPT !.sourceOwner = workspaces[f.urlWorkspaceId].ownerId,
                                !.pc = "findTargetWorkspace"]]
        /\ UNCHANGED <<reporting, devices, members, users, workspaces, notifications, activities, started, failures, floor>>

\* the local edit that precedes device.save() (line 781)
TransferEdit(f) == [f EXCEPT !.device.workspaceId = f.arg, !.pc = "saveDevice"]

\* await Workspace.findById(targetWorkspaceId) and the ownership and
\* permission checks (lines 711-775)
TransferFindTargetWorkspace(r) ==
    LET f == reqs[r]
        found == f.arg \in DOMAIN workspaces /\ workspaces[f.arg].exists
        isActualOwner == f.sourceOwner = f.userId
        hasTransferPermission == "TRANSFER_DEVICE" \in f.membership.permissions
    IN  /\ f.op = "transferDevice" /\ f.pc = "findTargetWorkspace"
        /\ reqs' = [reqs EXCEPT ![r] =
                      IF ~found THEN Return(f, Fail(404, "Target workspace not found", "none"))
                      ELSE IF f.sourceOwner # workspaces[f.arg].ownerId
                      THEN Return(f, Fail(403, "Cross-owner transfer not allowed", "none"))
                      ELSE IF isActualOwner THEN TransferEdit(f)
                      ELSE IF hasTransferPermission THEN [f EXCEPT !.pc = "findTargetMembership"]
                      ELSE Return(f, Fail(403, "Insufficient permissions", "none"))]
        /\ UNCHANGED <<reporting, devices, members, users, workspaces, notifications, activities, started, failures, floor>>

\* await WorkspaceMember.findOne for the target workspace (lines 739-768)
TransferFindTargetMembership(r) ==
    LET f == reqs[r]
        targetMembership == FindMember(f.arg, f.userId)
    IN  /\ f.op = "transferDevice" /\ f.pc = "findTargetMembership"
        /\ reqs' = [reqs EXCEPT ![r] =
                      IF ~targetMembership.exists
                      THEN Return(f, Fail(403, "Access denied to target workspace", "none"))
                      ELSE IF targetMembership.role \notin {"ADMIN", "OWNER"}
                      THEN Return(f, Fail(403, "Insufficient permissions in target workspace", "none"))
                      ELSE IF /\ targetMembership.role # "OWNER"
                              /\ "TRANSFER_DEVICE" \notin targetMembership.permissions
                      THEN Return(f, Fail(403, "Missing transfer permission in target workspace", "none"))
                      ELSE TransferEdit(f)]
        /\ UNCHANGED <<reporting, devices, members, users, workspaces, notifications, activities, started, failures, floor>>

\* await device.save(): $set of workspaceId (line 782)
TransferSaveDevice(r) ==
    LET f == reqs[r]
    IN  /\ f.op = "transferDevice" /\ f.pc = "saveDevice"
        /\ IF devices[f.device.id].exists
           THEN /\ devices' = [devices EXCEPT ![f.device.id].workspaceId = f.device.workspaceId]
                /\ reqs' = [reqs EXCEPT ![r] = [f EXCEPT !.pc = "createActivityOut"]]
           ELSE /\ reqs' = [reqs EXCEPT ![r] = Return(f, Fail(500, "Failed to transfer device", "none"))]
                /\ UNCHANGED devices
        /\ UNCHANGED <<reporting, members, users, workspaces, notifications, activities, started, failures, floor>>

\* await Activity.create in the source workspace (lines 785-798)
TransferCreateActivityOut(r) ==
    LET f == reqs[r]
    IN  /\ f.op = "transferDevice" /\ f.pc = "createActivityOut"
        /\ activities' = Append(activities,
                                DeviceActivity(f.urlWorkspaceId, f.userId, f.device,
                                               "DEVICE_TRANSFERRED_OUT"))
        /\ reqs' = [reqs EXCEPT ![r] = [f EXCEPT !.pc = "createActivityIn"]]
        /\ UNCHANGED <<reporting, devices, members, users, workspaces, notifications, started, failures, floor>>

\* await Activity.create in the target workspace (lines 801-814)
TransferCreateActivityIn(r) ==
    LET f == reqs[r]
    IN  /\ f.op = "transferDevice" /\ f.pc = "createActivityIn"
        /\ activities' = Append(activities,
                                DeviceActivity(f.arg, f.userId, f.device, "DEVICE_TRANSFERRED_IN"))
        /\ reqs' = [reqs EXCEPT ![r] = [f EXCEPT !.pc = "saveSourceNotification"]]
        /\ UNCHANGED <<reporting, devices, members, users, workspaces, notifications, started, failures, floor>>

\* await sourceNotification.save() (lines 817-830)
TransferSaveSourceNotification(r) ==
    LET f == reqs[r]
    IN  /\ f.op = "transferDevice" /\ f.pc = "saveSourceNotification"
        /\ notifications' = Append(notifications,
                                   [workspaceId |-> f.urlWorkspaceId, type |-> "DEVICE_TRANSFERRED"])
        /\ reqs' = [reqs EXCEPT ![r] = [f EXCEPT !.pc = "saveTargetNotification"]]
        /\ UNCHANGED <<reporting, devices, members, users, workspaces, activities, started, failures, floor>>

\* await targetNotification.save() and the answer (lines 842-885)
TransferSaveTargetNotification(r) ==
    LET f == reqs[r]
    IN  /\ f.op = "transferDevice" /\ f.pc = "saveTargetNotification"
        /\ notifications' = Append(notifications,
                                   [workspaceId |-> f.arg, type |-> "DEVICE_RECEIVED"])
        /\ reqs' = [reqs EXCEPT ![r] = Return(f, OkResp)]
        /\ UNCHANGED <<reporting, devices, members, users, workspaces, activities, started, failures, floor>>

\* ------------------------------------------------------ concurrent requests
\* Requests overlap: every await of one handler may be followed by a step of
\* another.  The QR codes in play are fresh ones of BIN-1.
FreshCodes == 2..MaxCode
ConcurrentBodies ==
    {[NoBody EXCEPT !.encryptedPayload = encryptPayload(ScanPayload("BIN-1", c))] :
         c \in FreshCodes}

ReceiveConcurrentScan ==
    \E r \in ReqIds, op \in ScanOps, body \in ConcurrentBodies :
        Receive(r, op, "u1", "w1", body)

ReceiveUpdateDevice ==
    \E r \in ReqIds : ReceiveDeviceOp(r, "updateDevice", "u1", NullV, "d1", "Lobby bin")

ReceiveControlDevice ==
    \E r \in ReqIds, action \in {"toggle", "reboot"} :
        ReceiveDeviceOp(r, "controlDevice", "u1", NullV, "d1", action)

ReceiveTransferDevice ==
    \E r \in ReqIds, u \in UserIds :
        ReceiveDeviceOp(r, "transferDevice", u, "w1", "d1", "w2")

DeviceStep(r) ==
    \/ UpdateFindDevice(r)
    \/ UpdateFindMembership(r)
    \/ UpdateSaveDevice(r)
    \/ UpdateCreateActivity(r)
    \/ UpdateSaveNotification(r)
    \/ ControlFindDevice(r)
    \/ ControlSaveDevice(r)
    \/ TransferFindDevice(r)
    \/ TransferFindMembership(r)
    \/ TransferFindSourceWorkspace(r)
    \/ TransferFindTargetWorkspace(r)
    \/ TransferFindTargetMembership(r)
    \/ TransferSaveDevice(r)
    \/ TransferCreateActivityOut(r)
    \/ TransferCreateActivityIn(r)
    \/ TransferSaveSourceNotification(r)
    \/ TransferSaveTargetNotification(r)

\* the scan steps a member's fresh scan of a device of the workspace goes through
ConcurrentScanStep(r) ==
    \/ GlobalFindDevice(r)
    \/ GlobalFindMembership(r)
    \/ GlobalSaveDevice(r)
    \/ GlobalFindUser(r)
    \/ GlobalMembershipSave(r)
    \/ GlobalUserSave(r)
    \/ GlobalActivityCreate(r)
    \/ GlobalRespond(r)
    \/ ScopedFindMembership(r)
    \/ ScopedFindDevice(r)
    \/ ScopedFindElsewhere(r)
    \/ ScopedLookupTarget(r)
    \/ ScopedSaveDevice(r)
    \/ ScopedFindUser(r)
    \/ ScopedMembershipSave(r)
    \/ ScopedUserSave(r)
    \/ ScopedActivityCreate(r)
    \/ ScopedRespond(r)

\* no persistence failure is injected while requests overlap
InitConcurrent ==
    /\ InitStore
    /\ failures = MaxFailures

NextConcurrent ==
    \/ ReceiveConcurrentScan
    \/ ReceiveUpdateDevice
    \/ ReceiveControlDevice
    \/ ReceiveTransferDevice
    \/ \E r \in ReqIds : ConcurrentScanStep(r)
    \/ \E r \in ReqIds : DeviceStep(r)
    \/ \E r \in ReqIds : Finish(r)

SpecConcurrent == InitConcurrent /\ [][NextConcurrent]_vars

\* --------------------------------------------------------- device registry
\* (deviceController.js)  registerDevice and removeDevice
Created == [OkResp EXCEPT !.status = 201, !.message = "Device registered successfully"]
AlreadyRegistered(msg) == Fail(409, "Device already registered", msg)

\* `${typeNames[type] || 'Device'} ${deviceNumber}` (lines 123-138)
AutoNames == <<"Smart Bin 1", "Smart Bin 2", "Smart Bin 3", "Smart Bin 4", "Smart Bin 5">>
CountDevices(w) == Cardinality({d \in DeviceRecIds : devices[d].exists /\ devices[d].workspaceId = w})

\* the _id of a new Device document: the first that was never given out
NewDeviceId ==
    LET i == CHOOSE i \in 1..Len(DeviceOrder) :
                 /\ devices[DeviceOrder[i]].id = NullV
                 /\ \A j \in 1..Len(DeviceOrder) : devices[DeviceOrder[j]].id = NullV => i <= j
    IN  DeviceOrder[i]

\* ---- registerDevice
\* the request arrives: required fields (lines 70-81), then the first await
RegisterDeviceWithin(limit, r, u, w, hw, type, name) ==
    LET f == [NewReq("registerDevice", u, w, [NoBody EXCEPT !.deviceId = hw, !.type = type])
                 EXCEPT !.arg = name]
    IN  /\ reqs[r].pc = "idle"
        /\ started < limit
        /\ started' = started + 1
        /\ reqs' = [reqs EXCEPT ![r] =
                      IF IsMissing(hw) \/ IsMissing(type)
                      THEN Return(f, Fail(400, "Missing required fields",
                                          "deviceId and type are required"))
                      ELSE [f EXCEPT !.pc = "findMembership"]]
        /\ UNCHANGED <<reporting, devices, members, users, workspaces, notifications, activities, failures, floor>>

ReceiveRegisterDevice(r, u, w, hw, type, name) ==
    RegisterDeviceWithin(MaxRequests, r, u, w, hw, type, name)

\* await WorkspaceMember.findOne({ workspaceId, userId }) (lines 84-94)
RegisterFindMembership(r) ==
    LET f == reqs[r]
        membership == FindMember(f.urlWorkspaceId, f.userId)
    IN  /\ f.op = "registerDevice" /\ f.pc = "findMembership"
        /\ reqs' = [reqs EXCEPT ![r] =
                      IF ~membership.exists
                      THEN Return(f, Fail(403, "Not a member of this workspace", "none"))
                      ELSE [f EXCEPT !.membership = membership, !.pc = "findExisting"]]
        /\ UNCHANGED <<reporting, devices, members, users, workspaces, notifications, activities, started, failures, floor>>

ExistingDeviceInWorkspace(f) == FindDeviceByDeviceIdIn(f.body.deviceId, f.urlWorkspaceId)

\* Device.findOne({ deviceId: deviceId }): in ANY workspace (lines 96-100)
ExistingDevice(f) == FindDeviceByDeviceId(f.body.deviceId)

\* await Device.findOne({ deviceId }).populate('workspaceId') and the 409
\* answers (lines 98-120)
RegisterFindExisting(r) ==
    LET f == reqs[r]
        existingDevice == ExistingDevice(f)
        isSameWorkspace == existingDevice.workspaceId = f.urlWorkspaceId
    IN  /\ f.op = "registerDevice" /\ f.pc = "findExisting"
        /\ reqs' = [reqs EXCEPT ![r] =
                      IF existingDevice.exists
                      THEN Return([f EXCEPT !.deviceElsewhere = existingDevice],
                                  AlreadyRegistered(
                                      IF isSameWorkspace
                                      THEN "Device is already registered in this workspace"
                                      ELSE "Device is already registered in workspace"))
                      ELSE [f EXCEPT !.pc = "countDocuments"]]
        /\ UNCHANGED <<reporting, devices, members, users, workspaces, notifications, activities, started, failures, floor>>

\* await Device.countDocuments({ workspaceId, type }) and the new document
\* built from the request (lines 123-184)
RegisterCountDocuments(r) ==
    LET f == reqs[r]
        deviceName == IF IsMissing(f.arg) THEN AutoNames[CountDevices(f.urlWorkspaceId) + 1]
                      ELSE f.arg
    IN  /\ f.op = "registerDevice" /\ f.pc = "countDocuments"
        /\ reqs' = [reqs EXCEPT ![r] =
                      [f EXCEPT !.device = [Device(NullV, f.body.deviceId, f.urlWorkspaceId, 0)
                                               EXCEPT !.name = deviceName],
                                !.pc = "saveDevice"]]
        /\ UNCHANGED <<reporting, devices, members, users, workspaces, notifications, activities, started, failures, floor>>

\* await device.save(): the insert of the new document (line 185)
RegisterSaveDevice(r) ==
    LET f == reqs[r]
        device == [f.device EXCEPT !.id = NewDeviceId]
    IN  /\ f.op = "registerDevice" /\ f.pc = "saveDevice"
        /\ \E d \in DeviceRecIds : devices[d].id = NullV
        /\ devices' = [devices EXCEPT ![device.id] = device]
        /\ reqs' = [reqs EXCEPT ![r] = [f EXCEPT !.device = device, !.pc = "createActivity"]]
        /\ UNCHANGED <<reporting, members, users, workspaces, notifications, activities, started, failures, floor>>

\* await activity.save() (lines 188-202)
RegisterSaveActivity(r) ==
    LET f == reqs[r]
    IN  /\ f.op = "registerDevice" /\ f.pc = "createActivity"
        /\ activities' = Append(activities,
                                DeviceActivity(f.urlWorkspaceId, f.userId, f.device, "DEVICE_ADDED"))
        /\ reqs' = [reqs EXCEPT ![r] = [f EXCEPT !.pc = "saveNotification"]]
        /\ UNCHANGED <<reporting, devices, members, users, workspaces, notifications, started, failures, floor>>

\* await notification.save() and the 201 answer (lines 205-240)
RegisterSaveNotification(r) ==
    LET f == reqs[r]
    IN  /\ f.op = "registerDevice" /\ f.pc = "saveNotification"
        /\ notifications' = Append(notifications,
                                   [workspaceId |-> f.urlWorkspaceId, type |-> "DEVICE_ADDED"])
        /\ reqs' = [reqs EXCEPT ![r] = Return(f, Created)]
        /\ UNCHANGED <<reporting, devices, members, users, workspaces, activities, started, failures, floor>>

\* ---- removeDevice
\* await Device.findById(req.params.id) (lines 490-500)
RemoveFindDevice(r) ==
    LET f == reqs[r]
        device == FindDeviceById(f.urlDeviceId)
    IN  /\ f.op = "removeDevice" /\ f.pc = "findDevice"
        /\ reqs' = [reqs EXCEPT ![r] =
                      IF ~device.exists THEN Return(f, Fail(404, "NOT_FOUND", "Device not found"))
                      ELSE [f EXCEPT !.device = device, !.pc = "findMembership"]]
        /\ UNCHANGED <<reporting, devices, members, users, workspaces, notifications, activities, started, failures, floor>>

\* await WorkspaceMember.findOne and the permission check (lines 503-531)
RemoveFindMembership(r) ==
    LET f == reqs[r]
        membership == FindMember(f.device.workspaceId, f.userId)
        isOwner == membership.role = "OWNER"
        isAdmin == membership.role = "ADMIN"
        hasPermission == "REMOVE_DEVICE" \in membership.permissions
    IN  /\ f.op = "removeDevice" /\ f.pc = "findMembership"
        /\ reqs' = [reqs EXCEPT ![r] =
                      IF ~membership.exists THEN Return(f, Fail(403, "FORBIDDEN", "Access denied"))
                      ELSE IF ~isOwner /\ (~isAdmin \/ ~hasPermission)
                      THEN Return(f, Fail(403, "FORBIDDEN",
                                          "Insufficient permissions. Requires REMOVE_DEVICE permission."))
                      ELSE [f EXCEPT !.pc = "deleteDevice"]]
        /\ UNCHANGED <<reporting, devices, members, users, workspaces, notifications, activities, started, failures, floor>>

\* await Device.findByIdAndDelete(req.params.id) (line 539): the document
\* is gone, its _id stays used
RemoveDeleteDevice(r) ==
    LET f == reqs[r]
    IN  /\ f.op = "removeDevice" /\ f.pc = "deleteDevice"
        /\ devices' = [devices EXCEPT ![f.urlDeviceId].exists = FALSE]
        /\ reqs' = [reqs EXCEPT ![r] = [f EXCEPT !.pc = "createActivity"]]
        /\ UNCHANGED <<reporting, members, users, workspaces, notifications, activities, started, failures, floor>>

\* await Activity.create (lines 542-550)
RemoveCreateActivity(r) ==
    LET f == reqs[r]
    IN  /\ f.op = "removeDevice" /\ f.pc = "createActivity"
        /\ activities' = Append(activities,
                                [DeviceActivity(f.device.workspaceId, f.userId, f.device,
                                                "DEVICE_REMOVED") EXCEPT !.deviceId = NullV])
        /\ reqs' = [reqs EXCEPT ![r] = [f EXCEPT !.pc = "saveNotification"]]
        /\ UNCHANGED <<reporting, devices, members, users, workspaces, notifications, started, failures, floor>>

\* await notification.save() and the answer (lines 553-577)
RemoveSaveNotification(r) ==
    LET f == reqs[r]
    IN  /\ f.op = "removeDevice" /\ f.pc = "saveNotification"
        /\ notifications' = Append(notifications,
                                   [workspaceId |-> f.device.workspaceId, type |-> "DEVICE_REMOVED"])
        /\ reqs' = [reqs EXCEPT ![r] = Return(f, OkResp)]
        /\ UNCHANGED <<reporting, devices, members, users, workspaces, activities, started, failures, floor>>

RegistryStep(r) ==
    \/ RegisterFindMembership(r)
    \/ RegisterFindExisting(r)
    \/ RegisterCountDocuments(r)
    \/ RegisterSaveDevice(r)
    \/ RegisterSaveActivity(r)
    \/ RegisterSaveNotification(r)
    \/ RemoveFindDevice(r)
    \/ RemoveFindMembership(r)
    \/ RemoveDeleteDevice(r)
    \/ RemoveCreateActivity(r)
    \/ RemoveSaveNotification(r)

\* what registerDevice and removeDevice are asked: a bound hardware id, one
\* bound nowhere, or none; a type or none; a name or none
RegisterInputs ==
    {"BIN-1", "BIN-9", Undefined} \X {"SMART_BIN", Undefined} \X {"Porch bin", Undefined}
RemoveInputs == {"d1", "d3"}

ReceiveRemoveDevice(r, u, id) ==
    /\ ReceiveDeviceOp(r, "removeDevice", u, NullV, id, Undefined)

\* requests one after another
NextRegistry ==
    \/ \E u \in UserIds, w \in WorkspaceIds, in \in RegisterInputs :
           Quiet /\ ReceiveRegisterDevice(1, u, w, in[1], in[2], in[3])
    \/ \E u \in UserIds, id \in RemoveInputs : Quiet /\ ReceiveRemoveDevice(1, u, id)
    \/ \E r \in ReqIds : RegistryStep(r)
    \/ \E r \in ReqIds : Finish(r)

SpecRegistry == InitConcurrent /\ [][NextRegistry]_vars

\* requests that overlap
NextRegistryOverlap ==
    \/ \E r \in ReqIds, u \in UserIds, w \in WorkspaceIds, in \in RegisterInputs :
           ReceiveRegisterDevice(r, u, w, in[1], in[2], in[3])
    \/ \E r \in ReqIds, u \in UserIds, id \in RemoveInputs : ReceiveRemoveDevice(r, u, id)
    \/ \E r \in ReqIds : RegistryStep(r)
    \/ \E r \in ReqIds : Finish(r)

SpecRegistryOverlap == InitConcurrent /\ [][NextRegistryOverlap]_vars

\* the codes shown to the scanner: the one the device last accepted, a newer
\* one, and a newer one that names the device by its record id
LifecycleCodes == {1, 2}
LifecycleBodies ==
    {[NoBody EXCEPT !.encryptedPayload = encryptPayload(ScanPayload("BIN-1", c))] :
         c \in LifecycleCodes}
    \cup {[NoBody EXCEPT !.encryptedPayload = encryptPayload(ScanPayload("d1", 2))]}

\* ---- transfers and scans, one request after another
\* what transferDevice is asked: the workspace in the URL, the device, and the
\* target: another workspace of the owner, the source itself, one that does
\* not exist, or none
TransferTargets == WorkspaceIds \cup {"w9", Undefined}
TransferDevices == {"d1", "d2", "d3"}
\* the scans around a transfer: the code BIN-1 accepted last, a newer one, a
\* code of BIN-2, and the legacy form
TransferBodies ==
    LifecycleBodies
    \cup {[NoBody EXCEPT !.encryptedPayload = encryptPayload(ScanPayload("BIN-2", 1))],
          [NoBody EXCEPT !.deviceId = "BIN-1", !.action = "SCAN"]}

TransferStep(r) ==
    \/ TransferFindDevice(r)
    \/ TransferFindMembership(r)
    \/ TransferFindSourceWorkspace(r)
    \/ TransferFindTargetWorkspace(r)
    \/ TransferFindTargetMembership(r)
    \/ TransferSaveDevice(r)
    \/ TransferCreateActivityOut(r)
    \/ TransferCreateActivityIn(r)
    \/ TransferSaveSourceNotification(r)
    \/ TransferSaveTargetNotification(r)

NextTransfer ==
    \/ \E u \in UserIds, w \in WorkspaceIds, id \in TransferDevices, target \in TransferTargets :
           Quiet /\ ReceiveDeviceOp(1, "transferDevice", u, w, id, target)
    \/ \E op \in ScanOps, u \in UserIds, w \in WorkspaceIds, body \in TransferBodies :
           Quiet /\ Receive(1, op, u, w, body)
    \/ \E r \in ReqIds : TransferStep(r)
    \/ \E r \in ReqIds : ScanStep(r)
    \/ \E r \in ReqIds : Finish(r)

SpecTransfer == InitConcurrent /\ [][NextTransfer]_vars

\* ---- a device's life: scanned, removed, registered again, scanned
NextLifecycle ==
    \/ \E op \in ScanOps, u \in UserIds, body \in LifecycleBodies :
           Quiet /\ ReceiveWithin(MaxLifecycle, 1, op, u, "w1", body)
    \/ \E u \in UserIds, w \in WorkspaceIds :
           Quiet /\ RegisterDeviceWithin(MaxLifecycle, 1, u, w, "BIN-1", "SMART_BIN", "Porch bin")
    \/ \E u \in UserIds, id \in RemoveInputs :
           Quiet /\ DeviceOpWithin(MaxLifecycle, 1, "removeDevice", u, NullV, id, Undefined)
    \/ \E r \in ReqIds : ScanStep(r)
    \/ \E r \in ReqIds : RegistryStep(r)
    \/ \E r \in ReqIds : Finish(r)

SpecLifecycle == InitConcurrent /\ [][NextLifecycle]_vars

\* ------------------------------------------------------ activity compaction
\* (activityArchiveService.js)  $dateTrunc { unit: "day" } and $hour, in UTC
DayOf(t) == t \div HoursPerDay
HourOf(t) == t % HoursPerDay

RECURSIVE SumPoints(_)
\* $sum: "$points" over the raw activities with the indices I
SumPoints(I) ==
    IF I = {} THEN 0
    ELSE LET i == CHOOSE i \in I : TRUE IN activities[i].points + SumPoints(I \ {i})

RECURSIVE SumField(_, _)
\* $sum over the buckets B of the field "count" or "points"
SumField(B, field) ==
    IF B = {} THEN 0
    ELSE LET b == CHOOSE b \in B : TRUE IN b[field] + SumField(B \ {b}, field)

MatchedThroughEnd(startDate, endDate) ==
    {i \in 1..Len(activities) :
        activities[i].createdAt >= startDate /\ activities[i].createdAt <= endDate}

\* STAGE 1 $match: createdAt $gte startDate, $lt endDate (lines 24-31)
Matched(startDate, endDate) ==
    {i \in 1..Len(activities) :
        activities[i].createdAt >= startDate /\ activities[i].createdAt < endDate}

\* STAGE 2 the _id of the inner $group (lines 36-44)
BucketKey(a) ==
    [workspaceId |-> a.workspaceId, type |-> a.type, deviceType |-> a.deviceType,
     day |-> DayOf(a.createdAt), hour |-> HourOf(a.createdAt)]

\* STAGE 2 $group by hour: count, points and the set of users (lines 34-50)
HourBuckets(S) ==
    {LET I == {i \in S : BucketKey(activities[i]) = k}
     IN  [key |-> k, count |-> Cardinality(I), points |-> SumPoints(I),
          userIds |-> {activities[i].userId : i \in I}] :
        k \in {BucketKey(activities[i]) : i \in S}}

RECURSIVE SumUserCounts(_)
SumUserCounts(G) ==
    IF G = {} THEN 0
    ELSE LET b == CHOOSE b \in G : TRUE
         IN Cardinality(b.userIds) + SumUserCounts(G \ {b})

ActiveUsersCountSummed(G) == SumUserCounts(G)

\* STAGE 4 $size of the $setUnion of the concatenated userIds arrays (lines 89-98)
ActiveUsersCount(G) == Cardinality(UNION {b.userIds : b \in G})

\* STAGE 3 and 4 $group by day and $project: one document for each
\* (workspaceId, day) among the buckets (lines 52-103)
DayDocs(B) ==
    {LET G == {b \in B : b.key.workspaceId = k[1] /\ b.key.day = k[2]}
     IN  [workspaceId |-> k[1], date |-> k[2],
          stats |-> [totalPoints |-> SumField(G, "points"),
                     totalActivities |-> SumField(G, "count"),
                     activeUsersCount |-> ActiveUsersCount(G)],
          timeline |-> {[hour |-> b.key.hour, type |-> b.key.type,
                         deviceType |-> b.key.deviceType, count |-> b.count,
                         points |-> b.points, userIds |-> b.userIds] : b \in G}] :
        k \in {<<b.key.workspaceId, b.key.day>> : b \in B}}

\* stages 1 to 4 of the pipeline
Pipeline(startDate, endDate) == DayDocs(HourBuckets(Matched(startDate, endDate)))

\* $merge on: ["workspaceId", "date"]
SameKey(a, b) == a.workspaceId = b.workspaceId /\ a.date = b.date
KeyOf(doc) == <<doc.workspaceId, doc.date>>

UniqueIndexAdmitsAll(doc) == TRUE

\* activityArchiveSchema.index({ workspaceId: 1, date: 1 }, { unique: true })
UniqueIndexAdmits(doc) == \A a \in BagToSet(archives) : ~SameKey(a, doc)

WhenMatchedAccumulate(old, new) ==
    [new EXCEPT !.stats.totalActivities = @ + old.stats.totalActivities]

\* whenMatched: "replace"
WhenMatched(old, new) == new

\* the collection after the document that matches doc is replaced
Replaced(doc) ==
    LET old == CHOOSE a \in BagToSet(archives) : SameKey(a, doc)
    IN  (archives (-) SetToBag({old})) (+) SetToBag({WhenMatched(old, doc)})

ActiveRun(f) == f.pc \in {"merge", "insert", "respond"}

\* archiveActivities(startDate, endDate) is entered and the aggregation is
\* sent: stages 1 to 4 are evaluated over the raw log (lines 16-116)
BeginRun(r, by, startDate, endDate) ==
    LET others == {q \in ReqIds : q # r /\ ActiveRun(runs[q])}
        f == [IdleRun EXCEPT !.pc = "merge", !.by = by, !.startDate = startDate,
                             !.endDate = endDate, !.overlapped = others # {},
                             !.output = Pipeline(startDate, endDate),
                             !.pre = [archives |-> archives, lastRun |-> lastRun]]
    IN  /\ ~ActiveRun(runs[r])
        /\ runs' = [q \in ReqIds |->
                       IF q = r THEN f
                       ELSE IF q \in others THEN [runs[q] EXCEPT !.overlapped = TRUE]
                       ELSE runs[q]]

\* a run asked for by an endpoint or started by hand
StartRun(r, by, startDate, endDate) ==
    /\ started < MaxRequests
    /\ started' = started + 1
    /\ BeginRun(r, by, startDate, endDate)

\* res.status(400).json({ success: false, error: { code, message } })
Refused(op, code) ==
    [op |-> op, ask |-> NullV, status |-> 400, success |-> FALSE, error |-> code, data |-> NullV]

\* what a body field of archiveDateRange may hold: nothing, text that is no
\* date (new Date(text).getTime() is NaN), or an ISO instant
NoDate == [kind |-> "absent", at |-> 0]
NotADate == [kind |-> "text", at |-> 0]
Instant(t) == [kind |-> "instant", at |-> t]

\* POST /admin/archive/range (deviceController.js 946-984)
ArchiveDateRange(r, startDate, endDate) ==
    LET refuse(code) ==
            /\ started < MaxRequests
            /\ started' = started + 1
            /\ reply' = Refused("archiveDateRange", code)
            /\ UNCHANGED <<serving, archives, lastRun, runs>>
    IN  IF startDate.kind = "absent" \/ endDate.kind = "absent"
        THEN refuse("MISSING_DATES")
        ELSE IF startDate.kind # "instant" \/ endDate.kind # "instant"
        THEN refuse("INVALID_DATES")
        ELSE IF startDate.at >= endDate.at
        THEN refuse("INVALID_RANGE")
        ELSE /\ StartRun(r, "archiveDateRange", startDate.at, endDate.at)
             /\ UNCHANGED <<serving, archives, lastRun, reply>>

\* midnight UTC of the current day (lines 136-137)
Midnight(t) == DayOf(t) * HoursPerDay

\* archiveYesterdaysActivities: [yesterday 00:00, today 00:00) (lines 132-145),
\* entered from the daily job (scheduler.js 21-34) or from triggerArchive
\* (deviceController.js 916-927)
ArchiveYesterday(r, by) ==
    /\ StartRun(r, by, Midnight(now) - HoursPerDay, Midnight(now))
    /\ UNCHANGED <<serving, archives, lastRun, reply>>

\* the answer of the endpoint that started the run; the daily job only logs
RunReply(f, ok) ==
    IF f.by = "dailyJob" THEN reply
    ELSE [op |-> f.by, ask |-> NullV, status |-> IF ok THEN 200 ELSE 500, success |-> ok,
          error |-> IF ok THEN "none" ELSE "ARCHIVE_FAILED", data |-> NullV]

\* the run has written doc and goes on with the rest of its output
Merged(f, doc) ==
    [f EXCEPT !.output = @ \ {doc}, !.written = @ \cup {KeyOf(doc)}, !.doc = NullV,
              !.pc = "merge"]

\* STAGE 5 $merge takes the next document: it replaces the document that
\* matches on (workspaceId, date), or finds none and goes on to insert
\* (lines 106-113)
MergeNext(r) ==
    LET f == runs[r] IN
    /\ f.pc = "merge"
    /\ IF f.output = {}
       THEN /\ runs' = [runs EXCEPT ![r] = [f EXCEPT !.pc = "respond"]]
            /\ UNCHANGED archives
       ELSE \E doc \in f.output :
                IF \E a \in BagToSet(archives) : SameKey(a, doc)
                THEN /\ archives' = Replaced(doc)
                     /\ runs' = [runs EXCEPT ![r] = Merged(f, doc)]
                ELSE /\ runs' = [runs EXCEPT ![r] = [f EXCEPT !.doc = doc, !.pc = "insert"]]
                     /\ UNCHANGED archives
    /\ UNCHANGED <<serving, lastRun, reply, started>>

\* whenNotMatched: "insert", under the unique index; an insert the index
\* rejects (another run inserted the key in between) is tried again as a
\* replacement, or ends the aggregation with a duplicate key error, which
\* archiveActivities rethrows (lines 111-125)
MergeInsert(r) ==
    LET f == runs[r] IN
    /\ f.pc = "insert"
    /\ IF UniqueIndexAdmits(f.doc)
       THEN /\ archives' = archives (+) SetToBag({f.doc})
            /\ runs' = [runs EXCEPT ![r] = Merged(f, f.doc)]
            /\ UNCHANGED <<lastRun, reply>>
       ELSE \/ /\ runs' = [runs EXCEPT ![r] = [f EXCEPT !.rejected = TRUE, !.pc = "merge"]]
               /\ UNCHANGED <<archives, lastRun, reply>>
            \/ /\ runs' = [runs EXCEPT ![r] = [f EXCEPT !.rejected = TRUE, !.pc = "failed"]]
               /\ lastRun' = NoRun
               /\ reply' = RunReply(f, FALSE)
               /\ UNCHANGED archives
    /\ UNCHANGED <<serving, started>>

\* the aggregation is over: return { success: true, duration } (lines 118-121)
RunRespond(r) ==
    LET f == runs[r] IN
    /\ f.pc = "respond"
    /\ runs' = [runs EXCEPT ![r] = [f EXCEPT !.pc = "done"]]
    /\ lastRun' = IF f.overlapped THEN NoRun ELSE RangeOf(f)
    /\ reply' = RunReply(f, TRUE)
    /\ UNCHANGED <<serving, archives, started>>

\* ---- the raw log the runs compact
RawEvent(w, u, type, points, t) ==
    [workspaceId |-> w, userId |-> u, deviceId |-> IF w = "w1" THEN "d1" ELSE "d2",
     deviceType |-> "SMART_BIN", type |-> type, points |-> points, createdAt |-> t]

\* u1 scans in hour 3 and in hour 15 of day 0, u2 in hour 15 too; a device
\* is added at noon; day 1 has a scan at midnight and one in another workspace
RawPool ==
    <<RawEvent("w1", "u1", "SCAN", RewardPoints, 3),
      RawEvent("w1", "u1", "SCAN", RewardPoints, 15),
      RawEvent("w1", "u2", "SCAN", RewardPoints, 15),
      RawEvent("w1", "u1", "DEVICE_ADDED", 0, 12),
      RawEvent("w1", "u2", "SCAN", RewardPoints, HoursPerDay),
      RawEvent("w2", "u1", "SCAN", RewardPoints, HoursPerDay + 3)>>

\* the raw logs in play: the first n events of the pool, for every n
RawLogs == {SubSeq(RawPool, 1, n) : n \in 0..Len(RawPool)}

\* the instants an operator asks for: midnights and a noon, and what is no instant
Instants == {0, 12, HoursPerDay, 2 * HoursPerDay}
DateInputs == {Instant(t) : t \in Instants} \cup {NoDate, NotADate}

\* a run takes the first slot that holds no run in flight
FreeSlot(r) == ~ActiveRun(runs[r]) /\ \A q \in ReqIds : ~ActiveRun(runs[q]) => r <= q

InitArchive ==
    /\ devices = InitDevices
    /\ members = InitMembers
    /\ users = InitUsers
    /\ workspaces = [w \in WorkspaceIds |-> [exists |-> TRUE, name |-> w, ownerId |-> "u1"]]
    /\ activities \in RawLogs
    /\ notifications = <<>>
    /\ reqs = [r \in ReqIds |-> IdleReq]
    /\ started = 0
    /\ failures = MaxFailures
    /\ floor = [d \in DeviceRecIds |-> InitDevices[d].lastUniqueCode]
    /\ now = InitialNow
    /\ archives = EmptyBag
    /\ runs = [r \in ReqIds |-> IdleRun]
    /\ lastRun = NoRun
    /\ reply = NoReply

RunStep(r) ==
    \/ MergeNext(r)
    \/ MergeInsert(r)
    \/ RunRespond(r)

\* runs one after another: the daily job, the trigger and the operator's
\* ranges, each started when the one before has returned
NoRunInFlight == \A q \in ReqIds : ~ActiveRun(runs[q])

NextArchive ==
    \/ \E r \in ReqIds, startDate, endDate \in DateInputs :
           NoRunInFlight /\ FreeSlot(r) /\ ArchiveDateRange(r, startDate, endDate)
    \/ \E r \in ReqIds, by \in {"dailyJob", "triggerArchive"} :
           NoRunInFlight /\ FreeSlot(r) /\ ArchiveYesterday(r, by)
    \/ \E r \in ReqIds : RunStep(r)

SpecArchive == InitArchive /\ [][NextArchive]_vars

\* runs that overlap: a second run may start while the first is between two
\* writes of its $merge stage; the whole pool is on the log
InitOverlap == InitArchive /\ activities = RawPool

OverlapInputs == {Instant(0), Instant(12), Instant(2 * HoursPerDay), NoDate, NotADate}

NextOverlap ==
    \/ \E r \in ReqIds, startDate, endDate \in OverlapInputs :
           FreeSlot(r) /\ ArchiveDateRange(r, startDate, endDate)
    \/ \E r \in ReqIds, by \in {"dailyJob", "triggerArchive"} :
           FreeSlot(r) /\ ArchiveYesterday(r, by)
    \/ \E r \in ReqIds : RunStep(r)

SpecOverlap == InitOverlap /\ [][NextOverlap]_vars

\* ---- the scheduler, the clock and the expiry of raw events
\* the run of the daily job has the first slot; it has fired today when the
\* slot holds its run up to today's midnight
FiredToday ==
    /\ runs[1].by = "dailyJob" /\ runs[1].pc # "idle"
    /\ runs[1].endDate = Midnight(now)

\* a failed run that stops the scheduler
FailureEscapes(f) == f.by = "dailyJob" /\ f.pc = "failed"

\* the callback catches what archiveYesterdaysActivities throws and logs it
\* (scheduler.js 24-30): no failed run stops the scheduler
Uncaught(f) == FALSE

\* cron.schedule('30 0 * * *', ..., { timezone: "UTC" }): once a day, in the
\* first hour of the day (scheduler.js 21-34)
DailyJob ==
    /\ HourOf(now) = 0
    /\ ~FiredToday
    /\ ~Uncaught(runs[1])
    /\ BeginRun(1, "dailyJob", Midnight(now) - HoursPerDay, Midnight(now))
    /\ UNCHANGED <<serving, archives, lastRun, reply, started>>

\* the database fails under a run: the aggregation rejects, archiveActivities
\* logs and rethrows (activityArchiveService.js 122-125)
RunFail(r) ==
    LET f == runs[r] IN
    /\ f.pc \in {"merge", "insert"}
    /\ failures < MaxFailures
    /\ failures' = failures + 1
    /\ runs' = [runs EXCEPT ![r] = [f EXCEPT !.pc = "failed"]]
    /\ lastRun' = NoRun
    /\ reply' = RunReply(f, FALSE)
    /\ UNCHANGED <<devices, members, users, workspaces, activities, notifications, reqs, floor,
                   now, archives, started>>

\* index { createdAt: 1 }, expireAfterSeconds: 2592000 (Device.js 113-115)
Expired(a) == a.createdAt + RawLogDays * HoursPerDay <= now
\* the TTL monitor passes every minute: a document is gone within the hour
\* after the one it expired in
Overdue(a) == a.createdAt + RawLogDays * HoursPerDay < now

\* the TTL monitor deletes an expired raw event
Expire(i) ==
    /\ i \in 1..Len(activities)
    /\ Expired(activities[i])
    /\ activities' = SubSeq(activities, 1, i - 1) \o SubSeq(activities, i + 1, Len(activities))
    /\ UNCHANGED <<devices, members, users, workspaces, notifications, reqs, failures, floor,
                   now, reporting, started>>

\* an hour passes, up to hour limit.  A run takes far less than an hour: the
\* clock moves between runs; the job of the day has fired before the first
\* hour of the day is over, unless the scheduler has stopped.
Advance(t, limit) ==
    /\ t <= limit
    /\ NoRunInFlight
    /\ HourOf(now) = 0 => FiredToday \/ Uncaught(runs[1])
    /\ \A i \in 1..Len(activities) : ~Overdue(activities[i])
    /\ now' = t
    /\ UNCHANGED <<devices, members, users, workspaces, activities, notifications, reqs,
                   failures, floor, archives, runs, lastRun, reply, started>>

\* an hour passes
Tick(limit) == Advance(now + 1, limit)

\* the instants at which the scheduler or the TTL monitor has something to do
Eventful(t) ==
    \/ HourOf(t) = 0
    \/ \E i \in 1..Len(activities) : activities[i].createdAt + RawLogDays * HoursPerDay = t

NextInstant ==
    CHOOSE t \in (now + 1)..(now + HoursPerDay) :
        Eventful(t) /\ \A s \in (now + 1)..(t - 1) : ~Eventful(s)

\* the time up to the next such instant passes
Elapse(limit) == Advance(NextInstant, limit)

\* ---- the scheduler watched over a few days
\* day 0 was compacted by the job of day 1; the job of day 2 is due
InitScheduler ==
    /\ devices = InitDevices
    /\ members = InitMembers
    /\ users = InitUsers
    /\ workspaces = [w \in WorkspaceIds |-> [exists |-> TRUE, name |-> w, ownerId |-> "u1"]]
    /\ activities = RawPool
    /\ notifications = <<>>
    /\ reqs = [r \in ReqIds |-> IdleReq]
    /\ started = 0
    /\ failures = 0
    /\ floor = [d \in DeviceRecIds |-> InitDevices[d].lastUniqueCode]
    /\ now = InitialNow
    /\ archives = SetToBag(Pipeline(0, HoursPerDay))
    /\ runs = [r \in ReqIds |-> IdleRun]
    /\ lastRun = NoRun
    /\ reply = NoReply

NextScheduler ==
    \/ DailyJob
    \/ \E r \in ReqIds : RunStep(r)
    \/ \E r \in ReqIds : RunFail(r)
    \/ Tick(InitialNow + MaxJobDays * HoursPerDay)

\* the callbacks are run by the event loop and the database answers: a step
\* that stays possible is taken
SpecScheduler ==
    /\ InitScheduler
    /\ [][NextScheduler]_vars
    /\ WF_vars(DailyJob)
    /\ WF_vars(\E r \in ReqIds : RunStep(r))
    /\ WF_vars(Tick(InitialNow + MaxJobDays * HoursPerDay))

\* ---- the retention of raw events: the scheduler over more than 30 days,
\* the TTL monitor, and the operator's compaction of a past day
RetentionHorizon == (RawLogDays + 2) * HoursPerDay
RetentionInputs == {Instant(0), Instant(HoursPerDay), Instant(2 * HoursPerDay)}

NextRetention ==
    \/ DailyJob
    \/ \E startDate, endDate \in RetentionInputs :
           /\ started < MaxManualRuns
           /\ NoRunInFlight
           /\ ArchiveDateRange(2, startDate, endDate)
    \/ \E r \in ReqIds : RunStep(r)
    \/ \E r \in ReqIds : RunFail(r)
    \/ \E i \in 1..Len(RawPool) : Expire(i)
    \/ Elapse(RetentionHorizon)

SpecRetention == InitScheduler /\ [][NextRetention]_vars

\* ------------------------------------------------------------- read side
\* (activityController.js, deviceController.js)  The handlers below only
\* read; each is one step from the request to its answer.
Answer(op, ask, status, error, data) ==
    [op |-> op, ask |-> ask, status |-> status, success |-> status = 200, error |-> error,
     data |-> data]

\* membership.joinedDate (WorkspaceMember.js 48-51): set once, when the
\* member joins.  u2 joined w1 at noon of day 0.
JoinedDate(w, u) == IF u = "u2" THEN 12 ELSE 0

\* ---- getActivities
\* the activity as the response formats it (lines 45-57)
Formatted(a) ==
    [workspaceId |-> a.workspaceId, type |-> a.type, deviceId |-> a.deviceId,
     deviceType |-> a.deviceType, userId |-> a.userId, points |-> a.points,
     createdAt |-> a.createdAt]

RECURSIVE MostRecentFirst(_)
\* .sort({ createdAt: -1 }): the orders of the indices S, most recent first;
\* the order among equal createdAt is the store's choice
MostRecentFirst(S) ==
    IF S = {} THEN {<<>>}
    ELSE UNION {{<<i>> \o q : q \in MostRecentFirst(S \ {i})} :
                   i \in {j \in S : \A k \in S :
                                       activities[j].createdAt >= activities[k].createdAt}}

\* what the query parameter limit may hold: nothing or the text of a number
NoLimit == [kind |-> "absent", n |-> 0]
Limit(n) == [kind |-> "integer", n |-> n]

\* query.limit(parseInt(limit)) when limit is given (lines 36-38)
Limited(q, limit) ==
    IF limit.kind = "absent" \/ limit.n >= Len(q) THEN q ELSE SubSeq(q, 1, limit.n)

\* createdAt: { $gte: lowerBound } (line 29)
LowerBound(createdAt, lowerBound) == createdAt >= lowerBound

GetActivities(w, u, since, limit) ==
    LET ask == [workspaceId |-> w, userId |-> u, since |-> since, limit |-> limit]
        membership == FindMember(w, u)
        lowerBound == IF since.kind = "absent" THEN JoinedDate(w, u) ELSE since.at
        S == {i \in 1..Len(activities) :
                 /\ activities[i].workspaceId = w
                 /\ LowerBound(activities[i].createdAt, lowerBound)}
    IN  /\ started < MaxRequests
        /\ started' = started + 1
        /\ IF ~membership.exists
           THEN reply' = Answer("getActivities", ask, 403, "Not a member of this workspace", NullV)
           ELSE IF since.kind = "text"
           THEN reply' = Answer("getActivities", ask, 500, "Failed to get activities", NullV)
           ELSE \E q \in MostRecentFirst(S) :
                    LET found == Limited(q, limit) IN
                    \* populate('userId'): null for a user without document,
                    \* and activity.userId._id then throws (line 53)
                    IF \E i \in 1..Len(found) : ~FindUser(activities[found[i]].userId).exists
                    THEN reply' = Answer("getActivities", ask, 500, "Failed to get activities", NullV)
                    ELSE reply' = Answer("getActivities", ask, 200, "none",
                                         [i \in 1..Len(found) |-> Formatted(activities[found[i]])])
        /\ UNCHANGED <<serving, archives, runs, lastRun>>

\* ---- getActivityGraph
GraphRanges == {"today", "yesterday", "7days", "30days"}

\* the window and the grouping of a range (lines 105-135); an unknown range
\* is the default case
GraphWindow(range) ==
    IF range = "yesterday"
    THEN [startDate |-> Midnight(now) - HoursPerDay, endDate |-> Midnight(now) - 1,
          groupBy |-> "hour"]
    ELSE IF range = "7days"
    THEN [startDate |-> Midnight(now) - 7 * HoursPerDay, endDate |-> now, groupBy |-> "day"]
    ELSE IF range = "30days"
    THEN [startDate |-> Midnight(now) - 30 * HoursPerDay, endDate |-> now, groupBy |-> "day"]
    ELSE [startDate |-> Midnight(now), endDate |-> now, groupBy |-> "hour"]

\* types.split(',').map(t => t.trim().toUpperCase()) (line 145), on the
\* tokens of the list; no tokens when the parameter is absent or empty
TrimUpper(t) ==
    IF t \in {"scan", " scan", "SCAN"} THEN "SCAN"
    ELSE IF t \in {"device_added", "DEVICE_ADDED"} THEN "DEVICE_ADDED"
    ELSE t

\* matchFilter (lines 138-147)
GraphMatched(w, win, types) ==
    {i \in 1..Len(activities) :
        /\ activities[i].workspaceId = w
        /\ activities[i].createdAt >= win.startDate
        /\ activities[i].createdAt <= win.endDate
        /\ types = <<>> \/ activities[i].type \in {TrimUpper(types[k]) : k \in 1..Len(types)}}

EmptySlotCounted(I) == Max(Cardinality(I), 1)

\* $sum: 1 of a group; a slot without group shows 0 (lines 210, 230)
SlotCount(I) == Cardinality(I)

\* the 24 hour slots (lines 203-213)
HourSlots(M) ==
    [k \in 1..HoursPerDay |->
        LET I == {i \in M : HourOf(activities[i].createdAt) = k - 1}
        IN  [hour |-> k - 1, count |-> SlotCount(I), points |-> SumPoints(I)]]

\* the day slots, d = dayCount - 1 down to 0 days before now (lines 216-233)
DaySlots(M, dayCount) ==
    [k \in 1..dayCount |->
        LET day == DayOf(now) - (dayCount - k)
            I == {i \in M : DayOf(activities[i].createdAt) = day}
        IN  [date |-> day, count |-> SlotCount(I), points |-> SumPoints(I)]]

\* the third aggregation: $group by type (lines 189-198, 245-248)
TypeBreakdown(M) ==
    {LET I == {i \in M : activities[i].type = t}
     IN  [type |-> t, count |-> Cardinality(I), points |-> SumPoints(I)] :
        t \in {activities[i].type : i \in M}}

GetActivityGraph(w, u, range, types) ==
    LET ask == [workspaceId |-> w, userId |-> u, range |-> range, types |-> types]
        membership == FindMember(w, u)
        win == GraphWindow(range)
        M == GraphMatched(w, win, types)
    IN  /\ started < MaxRequests
        /\ started' = started + 1
        /\ reply' =
              IF ~membership.exists
              THEN Answer("getActivityGraph", ask, 403, "Not a member of this workspace", NullV)
              ELSE Answer("getActivityGraph", ask, 200, "none",
                          [range |-> IF IsMissing(range) THEN "today" ELSE range,
                           groupBy |-> win.groupBy,
                           startDate |-> win.startDate, endDate |-> win.endDate,
                           dataPoints |-> IF win.groupBy = "hour" THEN HourSlots(M)
                                          ELSE DaySlots(M, IF range = "7days" THEN 7 ELSE 30),
                           totals |-> [totalActivities |-> Cardinality(M),
                                       totalPoints |-> SumPoints(M)],
                           typeBreakdown |-> TypeBreakdown(M)])
        /\ UNCHANGED <<serving, archives, runs, lastRun>>

\* ---- getWorkspaceArchiveStats and getWorkspaceTypeBreakdown
\* what the query parameter days may hold: nothing, text that starts with
\* no digit, or the decimal text of an integer
NoDays == [kind |-> "absent", n |-> 0]
NotANumber == [kind |-> "text", n |-> 0]
Days(n) == [kind |-> "integer", n |-> n]

\* parseInt(req.query.days): NaN unless the text is a number
parseInt(x) == IF x.kind = "integer" THEN [nan |-> FALSE, n |-> x.n] ELSE [nan |-> TRUE, n |-> 0]

\* parseInt(...) || default: NaN and 0 are falsy (lines 1016, 1055)
OrDefault(p, default) == IF p.nan \/ p.n = 0 THEN default ELSE p.n

DefaultStatsDays == 7
DefaultBreakdownDays == 30
MinDays == 1
MaxDays == 365

\* ActivityArchive.find({ workspaceId, date: { $gte: startDate } }), with
\* startDate the midnight `days` days before now (lines 153-160, 200-207)
ArchivesSince(w, days) ==
    {d \in BagToSet(archives) : d.workspaceId = w /\ d.date >= DayOf(now) - days}

RECURSIVE SumStats(_, _)
\* the running totals over the day documents (lines 168-171)
SumStats(D, field) ==
    IF D = {} THEN 0
    ELSE LET d == CHOOSE d \in D : TRUE IN d.stats[field] + SumStats(D \ {d}, field)

\* getArchivedStats(workspaceId, days) (lines 152-192)
getArchivedStats(w, days) ==
    LET D == ArchivesSince(w, days)
    IN  [days |-> days,
         totalPoints |-> SumStats(D, "totalPoints"),
         totalActivities |-> SumStats(D, "totalActivities"),
         uniqueUsers |-> Cardinality(UNION {UNION {b.userIds : b \in d.timeline} : d \in D}),
         dailyBreakdown |-> {[date |-> d.date, points |-> d.stats.totalPoints,
                              activities |-> d.stats.totalActivities,
                              users |-> d.stats.activeUsersCount] : d \in D}]

\* getActivityTypeBreakdown(workspaceId, days) (lines 199-222)
getActivityTypeBreakdown(w, days) ==
    LET B == UNION {d.timeline : d \in ArchivesSince(w, days)}
    IN  [days |-> days,
         breakdown |-> {[type |-> t,
                         count |-> SumField({b \in B : b.type = t}, "count"),
                         points |-> SumField({b \in B : b.type = t}, "points")] :
                           t \in {b.type : b \in B}}]

\* the two handlers differ in the default and in what they fetch
ArchiveQuery(op, w, daysParam) ==
    LET ask == [workspaceId |-> w, days |-> daysParam]
        days == OrDefault(parseInt(daysParam),
                          IF op = "getWorkspaceArchiveStats" THEN DefaultStatsDays
                          ELSE DefaultBreakdownDays)
    IN  /\ started < MaxRequests
        /\ started' = started + 1
        /\ reply' =
              IF days < MinDays \/ days > MaxDays
              THEN [Refused(op, "INVALID_DAYS") EXCEPT !.ask = ask]
              ELSE Answer(op, ask, 200, "none",
                          IF op = "getWorkspaceArchiveStats" THEN getArchivedStats(w, days)
                          ELSE getActivityTypeBreakdown(w, days))
        /\ UNCHANGED <<serving, archives, runs, lastRun>>

GetWorkspaceArchiveStats(w, daysParam) == ArchiveQuery("getWorkspaceArchiveStats", w, daysParam)
GetWorkspaceTypeBreakdown(w, daysParam) == ArchiveQuery("getWorkspaceTypeBreakdown", w, daysParam)

\* ---- the questions asked
\* ---- exportActivities (activityExportController.js 15-190)
\* the request's startDate when it lies inside the window, without clamping
StartAsAsked(start, thirtyDaysAgo) ==
    IF start.kind = "instant" THEN start.at ELSE thirtyDaysAgo

\* effectiveStart = start && start > thirtyDaysAgo ? start : thirtyDaysAgo
\* (line 58); an Invalid Date compares false
EffectiveStart(start, thirtyDaysAgo) ==
    IF start.kind = "instant" /\ start.at > thirtyDaysAgo THEN start.at ELSE thirtyDaysAgo

\* end.setHours(23, 59, 59, 999) (lines 44-49): the last hour of the day of
\* endDate, or of today without endDate
EndOfDay(endDate) ==
    Midnight(IF endDate.kind = "instant" THEN endDate.at ELSE now) + (HoursPerDay - 1)

\* a row of the detailed sheet (lines 146-157)
DetailRow(a) ==
    [date |-> DayOf(a.createdAt), time |-> HourOf(a.createdAt), type |-> a.type,
     deviceType |-> IF a.deviceType = NullV THEN "N/A" ELSE a.deviceType,
     points |-> a.points]

\* the rows of the aggregated sheet that one day document yields (lines
\* 93-110, 171-180)
AggregatedRows(dayDoc, deviceType, activityType) ==
    {[date |-> dayDoc.date, hour |-> entry.hour, type |-> entry.type,
      deviceType |-> IF entry.deviceType = NullV THEN "N/A" ELSE entry.deviceType,
      count |-> entry.count, points |-> entry.points] :
        entry \in {e \in dayDoc.timeline :
                      /\ (deviceType # NullV => e.deviceType = deviceType)
                      /\ (activityType # NullV => e.type = activityType)}}

RECURSIVE MostRecentDayFirst(_)
\* .sort({ date: -1 }) over day documents (lines 89-90)
MostRecentDayFirst(D) ==
    IF D = {} THEN <<>>
    ELSE LET d == CHOOSE d \in D : \A e \in D : d.date >= e.date
         IN  <<d>> \o MostRecentDayFirst(D \ {d})

ExportActivities(w, u, ownership, deviceType, activityType, startDate, endDate) ==
    LET ask == [workspaceId |-> w, userId |-> u, ownership |-> ownership,
                deviceType |-> deviceType, activityType |-> activityType,
                startDate |-> startDate, endDate |-> endDate]
        membership == FindMember(w, u)
        end == EndOfDay(endDate)
        thirtyDaysAgo == now - RawLogDays * HoursPerDay
        effectiveStart == EffectiveStart(startDate, thirtyDaysAgo)
        S == {i \in 1..Len(activities) :
                 /\ activities[i].workspaceId = w
                 /\ activities[i].userId = u
                 /\ activities[i].createdAt >= effectiveStart
                 /\ activities[i].createdAt <= end
                 /\ (deviceType # NullV => activities[i].deviceType = deviceType)
                 /\ (activityType # NullV => activities[i].type = activityType)}
        D == {d \in BagToSet(archives) :
                 /\ d.workspaceId = w
                 /\ (startDate.kind = "instant" => d.date * HoursPerDay >= startDate.at)
                 /\ d.date * HoursPerDay <= end}
        failed == Answer("exportActivities", ask, 500, "Failed to export activities", NullV)
    IN  /\ started < MaxRequests
        /\ started' = started + 1
        /\ IF ~membership.exists
           THEN reply' = Answer("exportActivities", ask, 403, "Access denied", NullV)
           \* an Invalid Date in a query condition is a cast error
           ELSE IF endDate.kind = "text"
           THEN reply' = failed
           ELSE IF ownership = "MY_ACTIVITY"
           THEN \E q \in MostRecentFirst(S) :
                    reply' = Answer("exportActivities", ask, 200, "none",
                                    [found |-> [i \in 1..Len(q) |-> activities[q[i]]],
                                     rows |-> [i \in 1..Len(q) |-> DetailRow(activities[q[i]])]])
           ELSE IF startDate.kind = "text"
           THEN reply' = failed
           ELSE LET days == MostRecentDayFirst(D) IN
                reply' = Answer("exportActivities", ask, 200, "none",
                                [found |-> days,
                                 rows |-> [i \in 1..Len(days) |->
                                              AggregatedRows(days[i], deviceType, activityType)]])
        /\ UNCHANGED <<serving, archives, runs, lastRun>>


\* ---- validatePayload on its own (crypto.js 96-125)
\* what a decrypted QR code may hold in each field
DeviceIdFields == {Undefined, NullV, "BIN-1", "BIN-2"}
TypeFields == {Undefined, NullV, "SMART_BIN"}
ActionFields == {Undefined, NullV, "SCAN", "REGISTER", "OPEN"}
UniqueCodeFields ==
    {NotNum(k) : k \in {"undefined", "null", "string", "boolean"}}
    \cup {Num(c) : c \in {0, MaxCode}} \cup {NumAndHalf(MaxCode)}
PayloadInputs ==
    {NullPayload}
    \cup {[null |-> FALSE, deviceId |-> d, type |-> t, action |-> a, uniqueCode |-> c] :
              d \in DeviceIdFields, t \in TypeFields, a \in ActionFields,
              c \in UniqueCodeFields}

\* the validation gate of the scan handlers (scanController.js 65-77,
\* 293-301): 400 Invalid payload, or on to the device lookup
ValidatePayload(p) ==
    LET validation == validatePayload(p) IN
    /\ started < MaxRequests
    /\ started' = started + 1
    /\ reply' = IF validation.valid
                THEN Answer("validatePayload", p, 200, "none", NullV)
                ELSE Answer("validatePayload", p, 400, validation.error, NullV)
    /\ UNCHANGED <<serving, archives, runs, lastRun>>

SinceInputs == {NoDate, NotADate, Instant(12), Instant(15), Instant(HoursPerDay)}
LimitInputs == {NoLimit, Limit(1)}
RangeInputs == GraphRanges \cup {Undefined}
TypesInputs == {<<>>, <<" scan">>}
DaysInputs == {NoDays, NotANumber} \cup {Days(n) : n \in {-1, 0, 1, 365, 366}}
OwnershipInputs == {"ALL", "MY_ACTIVITY"}
DeviceTypeInputs == {NullV, "SMART_BIN"}
ActivityTypeInputs == {NullV, "SCAN"}
StartDateInputs == {NoDate, NotADate, Instant(0), Instant(12)}
EndDateInputs == {NoDate, NotADate, Instant(12)}

\* every user who acted has an account
AllUsers == [u \in UserIds |-> [exists |-> TRUE, points |-> 70, scanCount |-> 7]]
\* the hour the questions are asked in: the afternoon of day 1, the first
\* hour of day 2, or the morning of day 7
QueryClocks == {HoursPerDay + 16, InitialNow, 7 * HoursPerDay + 5}
\* the hour an export is asked in: the first hour of day 2, or early on day
\* 30, when the TTL monitor has not yet removed the event of hour 3 of day 0
ExportClocks == {InitialNow, RawLogDays * HoursPerDay + 4}

\* the raw logs asked about: none, day 0 of one workspace, the whole pool
QueryLogs == {SubSeq(RawPool, 1, n) : n \in {0, 4, Len(RawPool)}}

\* the raw log, and the archive as the daily jobs have left it
QueryInit(clocks) ==
    /\ devices = InitDevices
    /\ members = InitMembers
    /\ users \in {InitUsers, AllUsers}
    /\ workspaces = [w \in WorkspaceIds |-> [exists |-> TRUE, name |-> w, ownerId |-> "u1"]]
    /\ activities \in QueryLogs
    /\ notifications = <<>>
    /\ reqs = [r \in ReqIds |-> IdleReq]
    /\ started = 0
    /\ failures = MaxFailures
    /\ floor = [d \in DeviceRecIds |-> InitDevices[d].lastUniqueCode]
    /\ now \in clocks
    /\ archives = SetToBag(Pipeline(0, Midnight(now)))
    /\ runs = [r \in ReqIds |-> IdleRun]
    /\ lastRun = NoRun
    /\ reply = NoReply

InitQueries == QueryInit(QueryClocks)
InitExport == QueryInit(ExportClocks)

NextQueries ==
    \/ \E w \in WorkspaceIds, u \in UserIds, since \in SinceInputs, limit \in LimitInputs :
           GetActivities(w, u, since, limit)
    \/ \E w \in WorkspaceIds, u \in UserIds, range \in RangeInputs, types \in TypesInputs :
           GetActivityGraph(w, u, range, types)
    \/ \E w \in WorkspaceIds, daysParam \in DaysInputs : GetWorkspaceArchiveStats(w, daysParam)
    \/ \E w \in WorkspaceIds, daysParam \in DaysInputs : GetWorkspaceTypeBreakdown(w, daysParam)

SpecQueries == InitQueries /\ [][NextQueries]_vars

NextExport ==
    \E w \in WorkspaceIds, u \in UserIds, ownership \in OwnershipInputs,
       deviceType \in DeviceTypeInputs, activityType \in ActivityTypeInputs,
       startDate \in StartDateInputs, endDate \in EndDateInputs :
        ExportActivities(w, u, ownership, deviceType, activityType, startDate, endDate)

SpecExport == InitExport /\ [][NextExport]_vars

NextValidate == \E p \in PayloadInputs : ValidatePayload(p)

SpecValidate == Init /\ [][NextValidate]_vars

\* ================================================================== claims
\* A finished scan request, with what it was asked.
ScanDone(f) == f.pc = "done" /\ f.op \in ScanOps
CarriesCode(f) == ~f.payload.null /\ f.payload.uniqueCode.t = "number"
\* the device records a scan addresses, by hardware id or by record id
Addresses(f, d) ==
    /\ f.pre.devices[d].exists
    /\ f.pre.devices[d].deviceId = f.finalDeviceId \/ d = f.finalDeviceId
\* the workspace a scan is processed in
ScanWorkspace(f, d) ==
    IF f.op = "scanDeviceGlobal" THEN f.pre.devices[d].workspaceId ELSE f.urlWorkspaceId
\* the store is as the request found it
StoreUnchangedSince(f) ==
    /\ devices = f.pre.devices
    /\ members = f.pre.members
    /\ users = f.pre.users
    /\ activities = f.pre.activities
AwardsNothingSince(f) ==
    /\ members = f.pre.members
    /\ users = f.pre.users
    /\ activities = f.pre.activities
\* the request passed every gate before replay protection
ReachesReplayGate(f, d) ==
    /\ f.finalAction = "SCAN"
    /\ f.pre.devices[d].workspaceId = ScanWorkspace(f, d)
    /\ f.pre.members[<<ScanWorkspace(f, d), f.userId>>].exists

\* C1 Replay monotonicity: with scans processed one after another, a scan that
\* carries a uniqueCode not above the largest code accepted before for the
\* device it addresses (or the device's initially stored value) does not
\* succeed, awards no points and appends no Activity, whoever sends it; when
\* it gets as far as replay protection it is answered as a replay.
C1_ReplayMonotonicity ==
    \A r \in ReqIds : \A d \in DeviceRecIds :
        LET f == reqs[r] IN
        (/\ ScanDone(f) /\ CarriesCode(f) /\ Addresses(f, d)
         /\ f.payload.uniqueCode.v <= f.pre.floor[d])
        => /\ ~f.resp.success
           /\ AwardsNothingSince(f)
           /\ devices[d].lastUniqueCode = f.pre.devices[d].lastUniqueCode
           /\ ReachesReplayGate(f, d) => f.resp = ReplayResp

\* a scan by one user is refused as a replay because of a code that another
\* user's accepted scan stored (a code the initial counter would have let pass)
C1_Witness ==
    \E r \in ReqIds : \E i \in 1..Len(activities) :
        LET f == reqs[r] IN
        /\ ScanDone(f) /\ CarriesCode(f) /\ f.resp = ReplayResp
        /\ f.payload.uniqueCode.v > 1
        /\ activities[i].type = "SCAN"
        /\ activities[i].deviceId = f.device.id
        /\ activities[i].userId # f.userId

\* a scan request that was answered with success
Succeeded(f) == f.op \in ScanOps /\ f.resp.sent /\ f.resp.success

\* C2 Two overlapping scans of one device that carry the same fresh
\* uniqueCode never both succeed.
C2_NoDoubleAccept ==
    \A r1, r2 \in ReqIds :
        (/\ r1 # r2
         /\ Succeeded(reqs[r1]) /\ Succeeded(reqs[r2])
         /\ reqs[r1].device.id = reqs[r2].device.id)
        => reqs[r1].payload.uniqueCode.v # reqs[r2].payload.uniqueCode.v

\* C3 No step of any operation lowers the lastUniqueCode stored for a device.
C3_LastUniqueCodeNeverDecreases ==
    [][\A d \in DeviceRecIds :
          devices'[d].lastUniqueCode >= devices[d].lastUniqueCode]_vars

\* C5 When the only two requests of a run are scans by the same user in the
\* same workspace and both were answered with success, the membership and the
\* user counters stand exactly two rewards above their initial values.
C5_NoLostUpdate ==
    \A r1, r2 \in ReqIds :
        LET f == reqs[r1]
            g == reqs[r2]
            key == <<f.workspaceId, f.userId>>
        IN  (/\ r1 # r2 /\ started = 2
             /\ f.pc = "done" /\ g.pc = "done"
             /\ Succeeded(f) /\ Succeeded(g)
             /\ f.userId = g.userId /\ f.workspaceId = g.workspaceId)
            => /\ members[key].points = InitMembers[key].points + 2 * RewardPoints
               /\ members[key].scanCount = InitMembers[key].scanCount + 2 * RewardScans
               /\ users[f.userId].points = InitUsers[f.userId].points + 2 * RewardPoints
               /\ users[f.userId].scanCount = InitUsers[f.userId].scanCount + 2 * RewardScans

\* the caller's User document exists
HasUserRecord(f) == f.pre.users[f.userId].exists
Encrypted(f) == f.body.encryptedPayload.kind = "cipher"

C6_AwardIffLogged ==
    \A r \in ReqIds :
        LET f == reqs[r] IN
        (ScanDone(f) /\ HasUserRecord(f))
        => ((members # f.pre.members /\ users # f.pre.users)
            <=> activities # f.pre.activities)
           /\ (members # f.pre.members <=> users # f.pre.users)

\* C7 Success means every write is done: a scan reports success only if the
\* membership write, the user write and the Activity insert of its award
\* step have all completed, in scanDevice and in scanDeviceGlobal alike.
C7_SuccessOnlyIfAllThreeWrites ==
    \A r \in ReqIds :
        LET f == reqs[r] IN
        Succeeded(f) => f.writes.m = "ok" /\ f.writes.u = "ok" /\ f.writes.a = "ok"

\* what does hold of the award step: a write that fails is never reported as
\* success, and success without a user write is scanDeviceGlobal answering a
\* caller who has no User document
FailedWriteIsReported ==
    \A r \in ReqIds :
        LET f == reqs[r]
            ws == {f.writes.m, f.writes.u, f.writes.a}
        IN  /\ (f.op \in ScanOps /\ f.resp.sent /\ "failed" \in ws) => ~f.resp.success
            /\ Succeeded(f)
               => /\ f.writes.m = "ok" /\ f.writes.a = "ok"
                  /\ \/ f.writes.u = "ok"
                     \/ /\ f.writes.u = "skipped"
                        /\ f.op = "scanDeviceGlobal"
                        /\ ~HasUserRecord(f)

\* the 4xx answers: validation, authorization, integrity and not-found failures
Rejected(f) == ScanDone(f) /\ f.resp.status \in {400, 403, 404}

\* C8 A scan request that ends in a validation, authorization, integrity or
\* not-found failure leaves the store as it found it.
C8_RejectionChangesNothing ==
    \A r \in ReqIds : Rejected(reqs[r]) => StoreUnchangedSince(reqs[r])

\* whatever a scan awards goes to the caller's membership of the workspace the
\* device is bound to, and is logged for that workspace, user and device
C9_AwardOnlyInBoundWorkspace ==
    \A r \in ReqIds :
        LET f == reqs[r]
            key == <<f.workspaceId, f.userId>>
        IN  (ScanDone(f) /\ ~AwardsNothingSince(f))
            => /\ f.device.exists
               /\ f.pre.devices[f.device.id].workspaceId = f.workspaceId
               /\ f.pre.members[key].exists
               /\ \A k \in DOMAIN members : k # key => members[k] = f.pre.members[k]
               /\ \A u \in UserIds : u # f.userId => users[u] = f.pre.users[u]
               /\ \A i \in (Len(f.pre.activities) + 1)..Len(activities) :
                      /\ activities[i].workspaceId = f.workspaceId
                      /\ activities[i].userId = f.userId
                      /\ activities[i].deviceId = f.device.id

\* a workspace-scoped scan by a member, of a device bound to another
\* workspace, is answered with Workspace mismatch naming that workspace
C9_MismatchNamesTarget ==
    \A r \in ReqIds : \A d \in DeviceRecIds :
        LET f == reqs[r]
            target == f.pre.devices[d].workspaceId
        IN  (/\ ScanDone(f) /\ f.op = "scanDevice" /\ EarnsPoints(f.finalAction)
             /\ Addresses(f, d)
             /\ target # f.urlWorkspaceId
             /\ f.pre.members[<<f.urlWorkspaceId, f.userId>>].exists)
            => /\ f.resp.status = 403
               /\ f.resp.error = "Workspace mismatch"
               /\ f.resp.data.targetWorkspaceId = target
               /\ f.resp.data.isMember = f.pre.members[<<target, f.userId>>].exists
               /\ StoreUnchangedSince(f)

\* a scan by a user who is not a member of the workspace it is processed in
\* is answered with Not a member of this workspace
C9_NonMemberDenied ==
    \A r \in ReqIds :
        LET f == reqs[r]
            nonMember ==
                IF f.op = "scanDevice"
                THEN ~f.pre.members[<<f.urlWorkspaceId, f.userId>>].exists
                ELSE \E d \in DeviceRecIds :
                         /\ Addresses(f, d)
                         /\ ~f.pre.members[<<f.pre.devices[d].workspaceId, f.userId>>].exists
        IN  (ScanDone(f) /\ EarnsPoints(f.finalAction) /\ nonMember)
            => /\ f.resp.status = 403
               /\ f.resp.error = "Not a member of this workspace"
               /\ StoreUnchangedSince(f)

\* C9 Workspace binding: points and a SCAN Activity are created for (user,
\* workspace, device) only if the device is bound to the workspace and the
\* user is a member of it; in the workspace-scoped scan a device bound to
\* another workspace yields Workspace mismatch with the target workspace and
\* the caller's membership of it; a non-member gets Not a member.
C9_WorkspaceBinding ==
    /\ C9_AwardOnlyInBoundWorkspace
    /\ C9_MismatchNamesTarget
    /\ C9_NonMemberDenied

\* the action a scan request presents: in the decrypted payload, or in the
\* plain body of the legacy form
Legacy(f) == f.body.encryptedPayload.kind = "absent" /\ f.op = "scanDevice"
RequestedAction(f) ==
    IF Encrypted(f) THEN f.body.encryptedPayload.plain.action ELSE f.body.action
OtherFieldsPresent(f) ==
    Encrypted(f) =>
        LET p == f.body.encryptedPayload.plain IN
        /\ ~IsMissing(p.deviceId) /\ ~IsMissing(p.type)
        /\ p.uniqueCode.t = "number"

\* C10 Action gating: a scan whose action is not SCAN never succeeds and
\* changes nothing, on the encrypted and on the legacy path; REGISTER is
\* answered with the guidance to use Add Device, any other or missing action
\* with an answer that names the invalid action.
C10_OnlyScanEarns ==
    \A r \in ReqIds :
        LET f == reqs[r]
            a == RequestedAction(f)
        IN  (ScanDone(f) /\ (Encrypted(f) \/ Legacy(f)) /\ a # "SCAN")
            => /\ ~f.resp.success
               /\ f.resp.status = 400
               /\ StoreUnchangedSince(f)
               /\ (OtherFieldsPresent(f) /\ a = "REGISTER") => f.resp = GuidanceResp
               /\ (OtherFieldsPresent(f) /\ a # "REGISTER")
                  => \/ /\ Legacy(f)
                        /\ f.resp.error = IF IsMissing(a) THEN "Missing action field"
                                          ELSE "Invalid action"
                     \/ /\ Encrypted(f)
                        /\ f.resp.error = "Invalid payload"
                        /\ f.resp.message = IF IsMissing(a) THEN "Missing field: action"
                                            ELSE "Invalid action"

\* a member's REGISTER code for a device of the workspace, with a fresh
\* uniqueCode, was answered with the guidance
C10_Witness ==
    \E r \in ReqIds :
        LET f == reqs[r] IN
        /\ ScanDone(f) /\ Encrypted(f)
        /\ RequestedAction(f) = "REGISTER"
        /\ f.resp = GuidanceResp
        /\ \E d \in DeviceRecIds :
               /\ f.pre.devices[d].deviceId = f.body.encryptedPayload.plain.deviceId
               /\ f.pre.devices[d].lastUniqueCode < f.body.encryptedPayload.plain.uniqueCode.v
               /\ f.pre.members[<<f.pre.devices[d].workspaceId, f.userId>>].exists

\* ------------------------------------------------------ compaction claims
\* a run that has returned, with no other run in flight while it ran
RunDone(f) == f.pc = "done" /\ ~f.overlapped
\* the run repeats the range of the run completed just before it
RepeatsLastRun(f) == f.pre.lastRun = RangeOf(f)

\* C11: when archiveActivities(start, end) runs a second time in succession
\* over the same raw log, the ActivityArchive collection after the second
\* run equals the collection after the first: same day documents, same
\* stats, same timeline buckets and user sets.
C11_IdempotentCompaction ==
    \A r \in ReqIds :
        LET f == runs[r] IN
        (RunDone(f) /\ RepeatsLastRun(f)) => archives = f.pre.archives

\* a second run over a range with raw events in two workspaces has returned
C11_Witness ==
    \E r \in ReqIds :
        LET f == runs[r] IN
        /\ RunDone(f) /\ RepeatsLastRun(f)
        /\ Cardinality(f.written) >= 2
        /\ \E a, b \in BagToSet(archives) : a.workspaceId # b.workspaceId

\* the users with a raw event of workspace w on UTC day `day` that the
\* range [startDate, endDate) selects
UsersOfDay(w, day, startDate, endDate) ==
    {activities[i].userId :
        i \in {j \in 1..Len(activities) :
                  /\ activities[j].workspaceId = w
                  /\ DayOf(activities[j].createdAt) = day
                  /\ activities[j].createdAt >= startDate
                  /\ activities[j].createdAt < endDate}}

\* C12: in every day document that archiveActivities writes,
\* stats.activeUsersCount is the size of the union of the timeline buckets'
\* userIds sets, which is the number of distinct users among the raw events
\* of that workspace and UTC day selected by the run: a user active in
\* several hours or types of the day is counted once.
C12_UnionNotSum ==
    /\ \A d \in BagToSet(archives) :
           d.stats.activeUsersCount = Cardinality(UNION {b.userIds : b \in d.timeline})
    /\ \A r \in ReqIds :
           LET f == runs[r] IN
           RunDone(f) =>
               \A k \in f.written :
                   \E d \in BagToSet(archives) :
                       /\ KeyOf(d) = k
                       /\ d.stats.activeUsersCount =
                              Cardinality(UsersOfDay(k[1], k[2], f.startDate, f.endDate))

\* u1 scanned in hour 3 and in hour 15 of the same day and nobody else did:
\* the day document a finished run wrote counts one active user
C12_Witness ==
    \E r \in ReqIds, d \in BagToSet(archives) :
        /\ RunDone(runs[r]) /\ KeyOf(d) \in runs[r].written
        /\ \E b1, b2 \in d.timeline :
               /\ b1.hour = 3 /\ b2.hour = 15
               /\ "u1" \in b1.userIds /\ "u1" \in b2.userIds
        /\ d.stats.activeUsersCount = 1

\* the raw events of workspace w on UTC day `day` that [startDate, endDate) selects
EventsOfDay(w, day, startDate, endDate) ==
    {i \in 1..Len(activities) :
        /\ activities[i].workspaceId = w
        /\ DayOf(activities[i].createdAt) = day
        /\ activities[i].createdAt >= startDate
        /\ activities[i].createdAt < endDate}
\* those of them that fall into the bucket b
EventsOfBucket(E, b) ==
    {i \in E : /\ HourOf(activities[i].createdAt) = b.hour
               /\ activities[i].type = b.type
               /\ activities[i].deviceType = b.deviceType}
\* d is the day document of the events E: one bucket for each distinct
\* (hour, type, deviceType) among them and no other, counts and points of
\* the buckets and the day's totals
SummarisesEvents(d, E) ==
    /\ \A i \in E : \E b \in d.timeline : i \in EventsOfBucket(E, b)
    /\ \A b \in d.timeline :
           /\ b.hour \in 0..(HoursPerDay - 1)
           /\ EventsOfBucket(E, b) # {}
           /\ b.count = Cardinality(EventsOfBucket(E, b))
           /\ b.points = SumPoints(EventsOfBucket(E, b))
           /\ \A c \in d.timeline :
                  (c.hour = b.hour /\ c.type = b.type /\ c.deviceType = b.deviceType)
                  => c = b
    /\ d.stats.totalActivities = SumField(d.timeline, "count")
    /\ d.stats.totalPoints = SumField(d.timeline, "points")
    /\ d.stats.totalActivities = Cardinality(E)
    /\ d.stats.totalPoints = SumPoints(E)

\* C13: after archiveActivities(start, end), every (workspace, UTC day) with
\* a raw event in [start, end) has a day document whose timeline holds
\* exactly one bucket for each distinct (hour, type, deviceType) among those
\* events, each with the number of its events as count and the sum of their
\* points as points; the stats are the sums over the buckets; events outside
\* [start, end) contribute to no bucket, and no other day is written.
C13_BucketsMatchRawEvents ==
    \A r \in ReqIds :
        LET f == runs[r] IN
        RunDone(f) =>
            /\ \A w \in WorkspaceIds, day \in 0..DayOf(now) :
                   LET E == EventsOfDay(w, day, f.startDate, f.endDate) IN
                   IF E = {} THEN <<w, day>> \notin f.written
                   ELSE /\ <<w, day>> \in f.written
                        /\ \E d \in BagToSet(archives) :
                               KeyOf(d) = <<w, day>> /\ SummarisesEvents(d, E)

\* a finished run over the morning of day 0 wrote the day's document while
\* the log holds events of that workspace and day from noon on
C13_Witness ==
    \E r \in ReqIds :
        LET f == runs[r] IN
        /\ RunDone(f) /\ f.startDate = 0 /\ f.endDate = 12
        /\ <<"w1", 0>> \in f.written
        /\ \E i \in 1..Len(activities) :
               /\ activities[i].workspaceId = "w1"
               /\ activities[i].createdAt = 12

\* C14: in every reachable state, whatever the order and the overlap of the
\* daily job, the trigger and the operator's range runs, the ActivityArchive
\* collection holds at most one document for each (workspaceId, UTC day).
C14_OneDocumentPerDay ==
    \A a \in BagToSet(archives) :
        /\ CopiesIn(a, archives) = 1
        /\ \A b \in BagToSet(archives) : SameKey(a, b) => a = b

\* two runs overlapped and both found no document for a day: one inserted
\* it, the insert of the other was refused by the unique index
C14_Witness ==
    \E r, q \in ReqIds :
        /\ r # q
        /\ runs[r].rejected
        /\ \E a \in BagToSet(archives) :
               /\ KeyOf(a) \in runs[q].written
               /\ KeyOf(a) \in runs[r].written \/ runs[r].pc = "failed"

\* d is what all the raw events of its workspace and UTC day amount to:
\* totals, buckets and the user sets of the buckets
DerivedFromWholeDay(d) ==
    LET E == EventsOfDay(d.workspaceId, d.date,
                         d.date * HoursPerDay, (d.date + 1) * HoursPerDay)
    IN  /\ SummarisesEvents(d, E)
        /\ \A b \in d.timeline :
               b.userIds = {activities[i].userId : i \in EventsOfBucket(E, b)}
        /\ d.stats.activeUsersCount = Cardinality({activities[i].userId : i \in E})

\* C15: with the raw log unchanged, a range run that archiveDateRange
\* accepts, whatever its bounds and however it overlaps earlier runs, never
\* corrupts a day document: every document that equalled what all the raw
\* events of its workspace and UTC day amount to when the run began is
\* still there and still equals it when the run has returned.
C15_OverlappingRunsKeepDayDocuments ==
    \A r \in ReqIds :
        LET f == runs[r] IN
        (RunDone(f) /\ f.by = "archiveDateRange") =>
            \A old \in BagToSet(f.pre.archives) :
                DerivedFromWholeDay(old) =>
                    \E d \in BagToSet(archives) : SameKey(d, old) /\ DerivedFromWholeDay(d)

\* ------------------------------------------------------- registry claims
\* C16: in every reachable state, also after two registerDevice requests for
\* the same hardware deviceId whose existence checks and inserts interleave,
\* at most one Device record carries a given non-null deviceId.
C16_DeviceIdUnique ==
    \A a, b \in DeviceRecIds :
        (/\ devices[a].exists /\ devices[b].exists
         /\ devices[a].deviceId # NullV
         /\ devices[a].deviceId = devices[b].deviceId)
        => a = b

\* a finished registerDevice request and what it asked for
RegisterDone(f) == f.pc = "done" /\ f.op = "registerDevice"
\* the records that carried the hardware id when the request arrived
BoundAtArrival(f) ==
    {d \in DeviceRecIds : f.pre.devices[d].exists /\ f.pre.devices[d].deviceId = f.body.deviceId}
\* the request passes the gates before the existence check: both required
\* fields are there and the caller is a member of the workspace
WellFormedRegistration(f) ==
    /\ ~IsMissing(f.body.deviceId) /\ ~IsMissing(f.body.type)
    /\ f.pre.members[<<f.urlWorkspaceId, f.userId>>].exists
\* the records created since the request arrived
CreatedSince(f) == {d \in DeviceRecIds : devices[d].exists /\ ~f.pre.devices[d].exists}

\* C17: with requests one after another, while a device with deviceId X is
\* bound to a workspace, registerDevice with X creates no record, and a
\* member's well-formed request is answered 409 "Device already registered"
\* whether it comes from another workspace or from the same one; when no
\* record carries X, as after removeDevice deleted the device, a member's
\* registerDevice with X succeeds and creates one fresh record bound to the
\* caller's workspace, with a new _id and a replay counter of 0.
C17_ScopedDeviceUniqueness ==
    \A r \in ReqIds :
        LET f == reqs[r] IN
        RegisterDone(f) =>
            IF BoundAtArrival(f) # {}
            THEN /\ ~f.resp.success
                 /\ devices = f.pre.devices
                 /\ WellFormedRegistration(f) =>
                        /\ f.resp.status = 409
                        /\ f.resp.error = "Device already registered"
            ELSE WellFormedRegistration(f) =>
                    /\ f.resp.success /\ f.resp.status = 201
                    /\ \E d \in DeviceRecIds :
                           /\ CreatedSince(f) = {d}
                           /\ f.pre.devices[d].id = NullV
                           /\ devices[d].deviceId = f.body.deviceId
                           /\ devices[d].workspaceId = f.urlWorkspaceId
                           /\ devices[d].lastUniqueCode = 0
                           /\ \A e \in DeviceRecIds \ {d} : devices[e] = f.pre.devices[e]

\* the device that carried X in one workspace was removed, and a request
\* from another workspace then registered X afresh
C17_Witness ==
    \E r \in ReqIds, gone \in DeviceRecIds :
        LET f == reqs[r] IN
        /\ RegisterDone(f) /\ f.resp.status = 201
        /\ ~f.pre.devices[gone].exists
        /\ f.pre.devices[gone].deviceId = f.body.deviceId
        /\ f.pre.devices[gone].workspaceId # f.urlWorkspaceId
        /\ \E d \in CreatedSince(f) : devices[d].workspaceId = f.urlWorkspaceId

\* ---------------------------------------------------------- read-side claims
\* a successful answer of getActivities
ActivitiesReturned == reply.op = "getActivities" /\ reply.success

\* C18: every activity getActivities returns for a `since` timestamp has
\* createdAt strictly greater than `since`; without `since` every returned
\* activity has createdAt not earlier than the caller's joinedDate; the
\* results belong to the requested workspace and come most recent first.
C18_IncrementalSync ==
    ActivitiesReturned =>
        LET got == reply.data
            ask == reply.ask
        IN  /\ ask.since.kind = "instant"
                   => \A i \in 1..Len(got) : got[i].createdAt > ask.since.at
            /\ ask.since.kind = "absent"
                   => \A i \in 1..Len(got) :
                          got[i].createdAt >= JoinedDate(ask.workspaceId, ask.userId)
            /\ \A i \in 1..Len(got) : got[i].workspaceId = ask.workspaceId
            /\ \A i, j \in 1..Len(got) : i < j => got[i].createdAt >= got[j].createdAt

\* an answer of one of the two archive queries
ArchiveQueries == {"getWorkspaceArchiveStats", "getWorkspaceTypeBreakdown"}

\* C19: for every integer `days` outside [1, 365], 0 and the negative values
\* included, the archive stats and the type-breakdown queries answer with the
\* validation error INVALID_DAYS and compute no result; the value is not
\* replaced by a default and not clamped.
C19_DaysOutOfRangeRefused ==
    (/\ reply.op \in ArchiveQueries
     /\ reply.ask.days.kind = "integer"
     /\ reply.ask.days.n < MinDays \/ reply.ask.days.n > MaxDays)
    => /\ reply.status = 400
       /\ ~reply.success
       /\ reply.error = "INVALID_DAYS"
       /\ reply.data = NullV

\* a successful answer of getActivityGraph, and the range it was given
GraphReturned == reply.op = "getActivityGraph" /\ reply.success
AskedRange == IF reply.ask.range \in GraphRanges THEN reply.ask.range ELSE "today"
\* the raw events of the asked workspace and types that fall into [from, to]
Counted(from, to) ==
    {i \in 1..Len(activities) :
        /\ activities[i].workspaceId = reply.ask.workspaceId
        /\ activities[i].createdAt >= from /\ activities[i].createdAt <= to
        /\ \/ reply.ask.types = <<>>
           \/ \E k \in 1..Len(reply.ask.types) :
                  TrimUpper(reply.ask.types[k]) = activities[i].type}
\* the first hour of the day the hour slots are about
GraphDayStart == IF AskedRange = "yesterday" THEN Midnight(now) - HoursPerDay ELSE Midnight(now)

\* C20: getActivityGraph returns every slot of the range: for today and
\* yesterday 24 data points with hours 0..23 ascending, for 7days 7 and for
\* 30days 30 data points, one per day in chronological order up to the
\* current day; a slot without matching activity has count 0 and points 0,
\* a slot with activity the count and the summed points of the activities
\* of its hour or day.
C20_ZeroFill ==
    GraphReturned =>
        LET dp == reply.data.dataPoints IN
        IF AskedRange \in {"today", "yesterday"}
        THEN /\ Len(dp) = HoursPerDay
             /\ \A k \in 1..Len(dp) :
                    LET h == GraphDayStart + (k - 1)
                        I == Counted(h, IF AskedRange = "today" /\ h > now THEN now ELSE h)
                    IN  /\ dp[k].hour = k - 1
                        /\ dp[k].count = Cardinality(I)
                        /\ dp[k].points = SumPoints(I)
                        /\ I = {} => dp[k].count = 0 /\ dp[k].points = 0
        ELSE LET n == IF AskedRange = "7days" THEN 7 ELSE 30 IN
             /\ Len(dp) = n
             /\ \A k \in 1..Len(dp) :
                    LET day == DayOf(now) - (n - k)
                        I == Counted(day * HoursPerDay,
                                     IF day = DayOf(now) THEN now
                                     ELSE day * HoursPerDay + (HoursPerDay - 1))
                    IN  /\ dp[k].date = day
                        /\ dp[k].count = Cardinality(I)
                        /\ dp[k].points = SumPoints(I)
                        /\ I = {} => dp[k].count = 0 /\ dp[k].points = 0

\* the graph of yesterday has two scans in the slot of hour 15 and nothing
\* in the slot of hour 14
C20_Witness ==
    /\ GraphReturned /\ AskedRange = "yesterday"
    /\ reply.data.dataPoints[16].count = 2 /\ reply.data.dataPoints[16].points = 2 * RewardPoints
    /\ reply.data.dataPoints[15].count = 0 /\ reply.data.dataPoints[15].points = 0

RECURSIVE SumSlots(_, _)
\* the sum of a field over the data points of an answer
SumSlots(dp, field) ==
    IF dp = <<>> THEN 0 ELSE Head(dp)[field] + SumSlots(Tail(dp), field)

\* C30: in every getActivityGraph answer the slots and the totals agree: the
\* counts of the data points add up to totals.totalActivities and their
\* points to totals.totalPoints, and the type breakdown adds up to the same
\* sums, for each range.
C30_SlotsAgreeWithTotals ==
    GraphReturned =>
        /\ SumSlots(reply.data.dataPoints, "count") = reply.data.totals.totalActivities
        /\ SumSlots(reply.data.dataPoints, "points") = reply.data.totals.totalPoints
        /\ SumField(reply.data.typeBreakdown, "count") = reply.data.totals.totalActivities
        /\ SumField(reply.data.typeBreakdown, "points") = reply.data.totals.totalPoints

\* a finished MY_ACTIVITY export
MyActivityExported ==
    reply.op = "exportActivities" /\ reply.success /\ reply.ask.ownership = "MY_ACTIVITY"

\* C21: every row of a MY_ACTIVITY export is made from a raw Activity of the
\* requested workspace whose userId is the caller, whose createdAt is not
\* older than 30 days before the request nor older than startDate when
\* startDate lies inside that window, and which matches the deviceType and
\* activityType filters when they are given; a startDate older than 30 days
\* is clamped, the request is answered.
C21_MyActivityExport ==
    MyActivityExported =>
        LET ask == reply.ask
            found == reply.data.found
            window == now - RawLogDays * HoursPerDay
        IN  /\ Len(reply.data.rows) = Len(found)
            /\ \A i \in 1..Len(found) :
                   /\ \E j \in 1..Len(activities) : activities[j] = found[i]
                   /\ reply.data.rows[i] = DetailRow(found[i])
                   /\ found[i].workspaceId = ask.workspaceId
                   /\ found[i].userId = ask.userId
                   /\ found[i].createdAt >= window
                   /\ (ask.startDate.kind = "instant" /\ ask.startDate.at > window
                          => found[i].createdAt >= ask.startDate.at)
                   /\ (ask.deviceType # NullV => found[i].deviceType = ask.deviceType)
                   /\ (ask.activityType # NullV => found[i].type = ask.activityType)

\* an export with a startDate older than 30 days is answered with rows while
\* the caller has an older activity in the workspace that is left out
C21_Witness ==
    /\ MyActivityExported
    /\ reply.ask.startDate.kind = "instant"
    /\ reply.ask.startDate.at < now - RawLogDays * HoursPerDay
    /\ Len(reply.data.rows) > 0
    /\ \E j \in 1..Len(activities) :
           /\ activities[j].workspaceId = reply.ask.workspaceId
           /\ activities[j].userId = reply.ask.userId
           /\ activities[j].createdAt < now - RawLogDays * HoursPerDay

\* a payload went through validatePayload
Validated == reply.op = "validatePayload"

\* C22: validatePayload finds a payload valid only when deviceId, type,
\* action and uniqueCode are all present and not null, action is SCAN or
\* REGISTER and uniqueCode is an integer; any other payload, one with a
\* uniqueCode that is a string or a number with a fraction among them, is
\* refused with a reason and goes no further.
C22_ValidateFailsClosed ==
    Validated =>
        LET p == reply.ask IN
        /\ reply.success =>
               /\ ~p.null
               /\ ~IsMissing(p.deviceId) /\ ~IsMissing(p.type) /\ ~IsMissing(p.action)
               /\ p.action \in {"SCAN", "REGISTER"}
               /\ p.uniqueCode.t = "number" /\ ~p.uniqueCode.half
        /\ ~reply.success => reply.error # "none"

\* a finished scan request that passed the decode / validate gate and the
\* action gate
PastActionGate(f) == f.pc = "done" /\ f.op \in ScanOps /\ f.finalAction = "SCAN"

\* the deviceId of the request named no device when the request arrived
NamesNoDevice(f) ==
    \A d \in DeviceRecIds :
        f.pre.devices[d].exists =>
            f.pre.devices[d].deviceId # f.finalDeviceId /\ d # f.finalDeviceId

\* C24: the gates of a scan are evaluated in the order decode / validate,
\* action, device resolution, membership, replay, award, and the answer is
\* that of the first gate that fails, in both handlers: a request past the
\* action gate whose deviceId exists nowhere is answered DeviceNotFound,
\* whether or not the caller is a member of the workspace, membership being
\* checked only once the device is resolved.
C24_GateOrder ==
    \A r \in ReqIds :
        PastActionGate(reqs[r]) /\ NamesNoDevice(reqs[r]) => reqs[r].resp.status = 404

\* a workspace-scoped scan that was answered with an award
ScopedAward(f) == f.op = "scanDevice" /\ f.pc = "done" /\ f.resp.success

\* C27: no sequence of workspace-scoped scans lets the same member earn
\* points twice on a device without the device's lastUniqueCode strictly
\* increasing between the two awards, for legacy plain requests as for
\* encrypted ones: of two awards to one member on one device, the later is
\* made at a larger lastUniqueCode than the earlier.
C27_EveryAwardRaisesTheCode ==
    \A r1, r2 \in ReqIds :
        (/\ r1 < r2
         /\ ScopedAward(reqs[r1]) /\ ScopedAward(reqs[r2])
         /\ reqs[r1].userId = reqs[r2].userId
         /\ reqs[r1].device.id = reqs[r2].device.id)
        => reqs[r1].device.lastUniqueCode < reqs[r2].device.lastUniqueCode

\* a finished scan that carried a code not above the largest code accepted
\* earlier for a device record of the same hardware deviceId
ScansAtOrBelowFloor(f) ==
    /\ f.op \in ScanOps /\ f.pc = "done"
    /\ CarriesCode(f)
    /\ \E d \in DeviceRecIds :
           /\ f.pre.devices[d].deviceId = f.payload.deviceId
           /\ f.payload.uniqueCode.v <= f.pre.floor[d]

\* C28: the replay floor of a hardware deviceId survives removeDevice followed
\* by registerDevice: once a scan with uniqueCode c was accepted for the
\* deviceId, every later scan for it with uniqueCode <= c is rejected,
\* whatever device records were deleted and created in between.
C28_FloorSurvivesReregistration ==
    \A r \in ReqIds : ScansAtOrBelowFloor(reqs[r]) => ~reqs[r].resp.success

\* a finished transferDevice request
TransferDone(f) == f.op = "transferDevice" /\ f.pc = "done"

\* the activities appended since the request arrived
AppendedSince(f) == SubSeq(activities, Len(f.pre.activities) + 1, Len(activities))

\* a successful transfer moves the binding of the device to the target, a
\* workspace of the same owner, keeps every other field of every device, and
\* logs one OUT in the source and one IN in the target
TransferMovesBindingOnly(f) ==
    LET d == f.urlDeviceId
        new == AppendedSince(f)
    IN  /\ devices = [f.pre.devices EXCEPT ![d].workspaceId = f.arg]
        /\ workspaces[f.arg].ownerId = workspaces[f.urlWorkspaceId].ownerId
        /\ devices[d].deviceId = f.pre.devices[d].deviceId
        /\ devices[d].lastUniqueCode = f.pre.devices[d].lastUniqueCode
        /\ members = f.pre.members /\ users = f.pre.users
        /\ SubSeq(activities, 1, Len(f.pre.activities)) = f.pre.activities
        /\ Len(new) = 2
        /\ \E i \in 1..2 : /\ new[i].type = "DEVICE_TRANSFERRED_OUT"
                           /\ new[i].workspaceId = f.urlWorkspaceId /\ new[i].deviceId = d
        /\ \E i \in 1..2 : /\ new[i].type = "DEVICE_TRANSFERRED_IN"
                           /\ new[i].workspaceId = f.arg /\ new[i].deviceId = d

\* the latest transfer of device record d, as the request found the log, was
\* out of workspace w
LastTransferredOutOf(f, d, w) ==
    \E i \in 1..Len(f.pre.activities) :
        /\ f.pre.activities[i].type = "DEVICE_TRANSFERRED_OUT"
        /\ f.pre.activities[i].deviceId = d
        /\ f.pre.activities[i].workspaceId = w
        /\ \A j \in (i + 1)..Len(f.pre.activities) :
               ~(/\ f.pre.activities[j].type = "DEVICE_TRANSFERRED_OUT"
                 /\ f.pre.activities[j].deviceId = d)

\* after a transfer, a scan in the source workspace fails with the workspace
\* mismatch answer
C26_SourceScanMismatch ==
    \A r \in ReqIds : \A d \in DeviceRecIds :
        LET f == reqs[r] IN
        (/\ f.op = "scanDevice" /\ PastActionGate(f)
         /\ Addresses(f, d)
         /\ LastTransferredOutOf(f, d, f.urlWorkspaceId))
        => f.resp.error = "Workspace mismatch"

\* after a transfer, the codes the device accepted before are still refused
C26_FloorKept ==
    \A r \in ReqIds : \A d \in DeviceRecIds :
        LET f == reqs[r] IN
        (/\ f.op \in ScanOps /\ f.pc = "done" /\ CarriesCode(f)
         /\ Addresses(f, d)
         /\ \E i \in 1..Len(f.pre.activities) :
                /\ f.pre.activities[i].type = "DEVICE_TRANSFERRED_IN"
                /\ f.pre.activities[i].deviceId = d
         /\ f.payload.uniqueCode.v <= f.pre.floor[d])
        => ~f.resp.success

C26_SuccessFrame ==
    \A r \in ReqIds :
        TransferDone(reqs[r]) /\ reqs[r].resp.success => TransferMovesBindingOnly(reqs[r])

C26_RejectedFrame ==
    \A r \in ReqIds :
        TransferDone(reqs[r]) /\ ~reqs[r].resp.success => StoreUnchangedSince(reqs[r])

\* C26: transferDevice changes nothing but the binding: a successful transfer
\* sets the device's workspaceId to the target workspace, which has the owner
\* of the source, keeps deviceId and lastUniqueCode, and appends one
\* DEVICE_TRANSFERRED_OUT activity in the source and one DEVICE_TRANSFERRED_IN
\* in the target; afterwards a workspace-scoped scan in the source fails with
\* Workspace mismatch and a scan in the target is still refused for every
\* uniqueCode not above the one accepted before; a rejected transfer changes
\* nothing.
C26_TransferFrame ==
    /\ C26_SuccessFrame
    /\ C26_RejectedFrame
    /\ C26_SourceScanMismatch
    /\ C26_FloorKept

\* ---- C23: a scheduled compaction that fails is not run again for its day,
\* and the job of the following day still runs over its own range, from the
\* midnight of the failed run to the next
JobDays == DayOf(InitialNow)..(DayOf(InitialNow) + MaxJobDays - 1)

DailyJobFailedOn(d) ==
    /\ runs[1].by = "dailyJob"
    /\ runs[1].pc = "failed"
    /\ runs[1].endDate = d * HoursPerDay

DailyJobRanAfter(d) ==
    /\ runs[1].by = "dailyJob"
    /\ runs[1].startDate = d * HoursPerDay
    /\ runs[1].endDate = (d + 1) * HoursPerDay
    /\ runs[1].pc \in {"done", "failed"}

FailedRunLeftAlone ==
    (runs[1].by = "dailyJob" /\ runs[1].pc = "failed") =>
        \/ runs'[1] = runs[1]
        \/ /\ runs'[1].by = "dailyJob"
           /\ runs'[1].startDate = runs[1].endDate

C23_NextRunUnaffected ==
    /\ [][FailedRunLeftAlone]_vars
    /\ \A d \in JobDays : DailyJobFailedOn(d) ~> DailyJobRanAfter(d)

C23_Witness ==
    /\ failures > 0
    /\ runs[1].by = "dailyJob"
    /\ runs[1].pc = "done"
    /\ runs[1].startDate >= InitialNow

\* the day document of the record's workspace and day has the record's
\* bucket and names the record's user in it
CountedInArchive(a) ==
    \E d \in BagToSet(archives) :
        /\ d.workspaceId = a.workspaceId
        /\ d.date = DayOf(a.createdAt)
        /\ \E b \in d.timeline :
               /\ b.hour = HourOf(a.createdAt)
               /\ b.type = a.type
               /\ b.deviceType = a.deviceType
               /\ a.userId \in b.userIds

\* the record is in the raw store before the step and not after it
Purged(a) ==
    /\ \E i \in 1..Len(activities) : activities[i] = a
    /\ \A j \in 1..Len(activities') : activities'[j] # a

\* C25: a raw activity purged by the 30-day expiry is counted in the day
\* document of its workspace and day at the time it is purged, in every run
\* in which the daily job fires every day, failed compactions included
C25_ArchivedBeforeExpiry ==
    [][\A i \in 1..Len(activities) :
           Purged(activities[i]) => CountedInArchive(activities[i])]_vars

\* the later document keeps what the earlier one recorded: the totals are not
\* lower and every bucket of the timeline is still there
KeepsHistory(old, new) ==
    /\ new.stats.totalActivities >= old.stats.totalActivities
    /\ new.stats.totalPoints >= old.stats.totalPoints
    /\ \A b \in old.timeline :
           \E c \in new.timeline :
               c.hour = b.hour /\ c.type = b.type /\ c.deviceType = b.deviceType

\* C29: once a day document exists for a workspace and a day, every step
\* leaves a document for that workspace and day whose totals are not lower
\* and whose timeline has lost no bucket, also when the step is a compaction
\* run after raw events of the day were removed by the 30-day expiry; and
\* the archive changes only in a step of a compaction run
C29_HistoryKept ==
    [][/\ \A old \in BagToSet(archives) :
              \E new \in BagToSet(archives') : SameKey(new, old) /\ KeepsHistory(old, new)
       /\ archives' # archives =>
              \E r \in ReqIds : runs[r].pc \in {"merge", "insert"} /\ runs'[r] # runs[r]]_vars

====
